---------------------------- MODULE Spec2Model ----------------------------
(***************************************************************************)
(* A model of the msgp repository: the MessagePack extension codec         *)
(* (msgp/extension.go), the extension registry, and the code generator's   *)
(* type ingester and reference resolver (package parse).                   *)
(*                                                                         *)
(* Byte slices are sequences of naturals below 256.  Go indexes from 0,    *)
(* TLA+ sequences from 1: b[i] in the source is At(b, i) here.             *)
(***************************************************************************)
EXTENDS Integers, Sequences, FiniteSets, TLC

VARIABLES
    \* ---- extension codec ----
    phase,      \* position of the codec scenario: idle / written / encoded / decoded / peeked
    origin,     \* how the bytes in wire were produced, and from which extension
    mw,         \* the Writer: its unflushed buffer and the bytes its sink received
    wire,       \* the bytes in front of the decoder (slice b, or the Reader's source)
    last,       \* what the last decoder call did
    peeked,     \* what peekExtension returned on the bytes in wire
    \* ---- extension registry ----
    extensionReg,   \* the registered factories, id -> factory
    regCalls,       \* the RegisterExtension calls made so far, with their outcome
    goCalls,        \* two concurrent RegisterExtension calls: position and arguments
    crashed,        \* the runtime stopped the process on a concurrent map access
    overlap,        \* the two calls ran at the same time
    ended,          \* the calls in the order they ended
    regBefore,      \* the registry when the two calls were made
    \* ---- code generator (package parse) ----
    pc,             \* position inside GetElems
    file,           \* the type specs of the unit being processed
    globalIdents,   \* identTable
    globalProcessed,\* processedTable
    out,            \* the element trees of the current run
    gen_i,          \* loop index of GetElems' loops
    report,         \* per tree, the unresolved identifiers findUnresolved returned
    \* ---- codec primitives: Write<Kind>, Read<Kind>Bytes, Skip ----
    wpc,            \* position of the scenario: writing / flushed / read / skipping
    items,          \* the values written so far, one per Write<Kind> call
    ww,             \* the Writer they were written to
    cuts,           \* the length of the output after each of them
    unskipped,      \* the flushed bytes not yet consumed by Skip
    readres,        \* what the Read<Kind>Bytes call returned
    nskip,          \* the number of Skip calls made
    skiperr,        \* the error of the last Skip call
    \* ---- errors ----
    errs            \* the error last returned, with what its Resumable() said

extVars   == <<phase, origin, mw, wire, last, peeked>>
concVars  == <<goCalls, crashed, overlap, ended, regBefore>>
regVars   == <<extensionReg, regCalls, concVars>>
parseVars == <<pc, file, globalIdents, globalProcessed, out, gen_i, report>>
wireVars  == <<wpc, items, ww, cuts, unskipped, readres, nskip, skiperr>>
errVars   == <<errs>>
vars      == <<extVars, regVars, parseVars, wireVars, errVars>>

-----------------------------------------------------------------------------
(* Bounds of the model                                                     *)

\* every payload length 0..MaxSmallLen is exercised, plus the width boundaries
MaxSmallLen == 17
\* the Writer starts with 0..MaxPre unflushed bytes of earlier writes
MaxPre == 4
\* crafted inputs carry 0..MaxTrail bytes after the object
MaxTrail == 1
\* crafted inputs declare payload lengths 0..MaxCraftLen
MaxCraftLen == 2
\* RegisterExtension is called at most MaxCalls times
MaxCalls == 3
\* field types nest at most MaxDepth pointers, slices, arrays and maps
MaxDepth == 2

-----------------------------------------------------------------------------
(* Bytes, integers and slices                                              *)

MaxUint8  == 255
MaxUint16 == 65535

\* byte(x) of an int8
Byte(t) == (t + 256) % 256
\* int8(x) of a byte
Int8(x) == IF x >= 128 THEN x - 256 ELSE x

\* b[i], Go's 0-based index
At(b, i) == b[i + 1]
\* b[lo:hi]
Slice(b, lo, hi) == SubSeq(b, lo + 1, hi)
\* b[lo:]
From(b, lo) == SubSeq(b, lo + 1, Len(b))
\* b[i] = v
Put(b, i, v) == [b EXCEPT ![i + 1] = v]
\* copy(dst[at:], src): copies min(len(dst)-at, len(src)) bytes
Copy(dst, at, src) ==
    LET k == IF Len(dst) - at < Len(src) THEN Len(dst) - at ELSE Len(src)
    IN  SubSeq(dst, 1, at) \o SubSeq(src, 1, k) \o SubSeq(dst, at + k + 1, Len(dst))

\* big.PutUint16(b[at:], v)
PutUint16(b, at, v) ==
    Put(Put(b, at, (v \div 256) % 256), at + 1, v % 256)
\* big.PutUint32(b[at:], v), for v below 2^31
PutUint32(b, at, v) ==
    Put(Put(Put(Put(b, at, (v \div 16777216) % 256),
                    at + 1, (v \div 65536) % 256),
                at + 2, (v \div 256) % 256),
            at + 3, v % 256)
\* big.Uint16(b[at:])
Uint16(b, at) == At(b, at) * 256 + At(b, at + 1)
\* big.Uint32(b[at:]).  TLC integers have 32 bits: a value of 2^30
\* or more, longer than any slice here, is read as 2^30.
Uint32(b, at) ==
    IF At(b, at) >= 64 THEN 1073741824
    ELSE At(b, at) * 16777216 + At(b, at + 1) * 65536
            + At(b, at + 2) * 256 + At(b, at + 3)

\* n bytes of value v (cut from a constant row when there is one of v)
LongestSlice == MaxUint16 + 64
Zeros   == [i \in 1..LongestSlice |-> 0]
Pattern == [i \in 1..LongestSlice |-> 170]
Fill(n, v) ==
    CASE v = 0   -> SubSeq(Zeros, 1, n)
      [] v = 170 -> SubSeq(Pattern, 1, n)
      [] OTHER   -> [i \in 1..n |-> v]

-----------------------------------------------------------------------------
(* Wire prefixes of the extension kinds                                    *)

mext8     == 199    \* 0xc7
mext16    == 200    \* 0xc8
mext32    == 201    \* 0xc9
mfixext1  == 212    \* 0xd4
mfixext2  == 213    \* 0xd5
mfixext4  == 214    \* 0xd6
mfixext8  == 215    \* 0xd7
mfixext16 == 216    \* 0xd8
\* a prefix that is no extension (nil) and one that is no prefix at all
mnil      == 192    \* 0xc0
\* room AppendExtension reserves for the header: the longest header, ext32
ExtensionPrefixSize == 6

-----------------------------------------------------------------------------
(* Errors                                                                  *)

Err(k, got, want) == [kind |-> k, Got |-> got, Want |-> want]
NoErr         == Err("nil", 0, 0)
ErrShortBytes == Err("ErrShortBytes", 0, 0)
\* TypeError{Method: ExtensionType, Encoded: getType(lead)}
TypeError(lead) == Err("TypeError", lead, 0)
\* errExt(got, wanted)
errExt(got, wanted) == Err("ExtensionTypeError", got, wanted)
\* InvalidPrefixError(lead)
InvalidPrefixError(lead) == Err("InvalidPrefixError", lead, 0)
\* an error a user extension's UnmarshalBinary returns
UnmarshalError == Err("UnmarshalError", 0, 0)
\* the source's error when the Reader's Peek finds the stream at its end
ErrEOF == Err("EOF", 0, 0)

-----------------------------------------------------------------------------
(* Extensions.  An Extension is [Type, Data, failing]: RawExtension is the *)
(* one with failing = FALSE; failing = TRUE is a user extension whose      *)
(* UnmarshalBinary rejects its input.                                      *)

RawExtension(t, d) == [Type |-> t, Data |-> d, failing |-> FALSE]
UserExtension(t)   == [Type |-> t, Data |-> << >>, failing |-> TRUE]

ExtensionType(e) == e.Type
ExtLen(e) == Len(e.Data)

\* MarshalBinaryTo(d): copy(d, r.Data); the result is the slice d after the copy
MarshalBinaryTo(e, d) == Copy(d, 0, e.Data)

\* UnmarshalBinary(b): the extension afterwards and the error
UnmarshalBinary(e, b) ==
    IF e.failing
    THEN [e |-> e, err |-> UnmarshalError]
    ELSE [e |-> [e EXCEPT !.Data = b], err |-> NoErr]

-----------------------------------------------------------------------------
(* AppendExtension (slice API)                                             *)

\* ensure(b, sz): the slice grown by sz bytes, and the old length
ensure(b, sz) == [o |-> b \o Fill(sz, 0), n |-> Len(b)]

\* the first switch of AppendExtension for l # 0: the fixext cases write
\* prefix and type and advance n by 2, and do not return
AppendFixHeader(o, n, l, t) ==
    CASE l = 1  -> [o |-> Put(Put(o, n, mfixext1), n + 1, t),  n |-> n + 2]
      [] l = 2  -> [o |-> Put(Put(o, n, mfixext2), n + 1, t),  n |-> n + 2]
      [] l = 4  -> [o |-> Put(Put(o, n, mfixext4), n + 1, t),  n |-> n + 2]
      [] l = 8  -> [o |-> Put(Put(o, n, mfixext8), n + 1, t),  n |-> n + 2]
      [] l = 16 -> [o |-> Put(Put(o, n, mfixext16), n + 1, t), n |-> n + 2]
      [] OTHER  -> [o |-> o, n |-> n]

\* the second switch of AppendExtension: reached by every l # 0
AppendExtHeader(o, n, l, t) ==
    IF l < MaxUint8
    THEN [o |-> Put(Put(Put(o, n, mext8), n + 1, l % 256), n + 2, t),
          n |-> n + 3]
    ELSE IF l < MaxUint16
    THEN [o |-> Put(PutUint16(Put(o, n, mext16), n + 1, l % 65536), n + 3, t),
          n |-> n + 4]
    ELSE [o |-> Put(PutUint32(Put(o, n, mext32), n + 1, l), n + 5, t),
          n |-> n + 6]

\* AppendExtension(b, e): the returned slice and error
AppendExtension(b, e) ==
    LET l  == ExtLen(e)
        t  == Byte(ExtensionType(e))
        en == ensure(b, ExtensionPrefixSize + l)
    IN  IF l = 0
        THEN [b |-> Slice(Put(Put(Put(en.o, en.n, mext8), en.n + 1, 0),
                              en.n + 2, t), 0, en.n + 3),
              err |-> NoErr]
        ELSE LET s1 == AppendFixHeader(en.o, en.n, l, t)
                 s2 == AppendExtHeader(s1.o, s1.n, l, t)
             IN  [b |-> Slice(s2.o, 0, s2.n) \o
                        MarshalBinaryTo(e, Slice(s2.o, s2.n, s2.n + l)),
                  err |-> NoErr]

-----------------------------------------------------------------------------
(* Writer.WriteExtension (streaming API)                                   *)
(* The Writer is [buf, sink]: the unflushed bytes and what the sink got.   *)

\* flush: the buffer goes to the sink and is reset
Flush(w) == [buf |-> << >>, sink |-> w.sink \o w.buf]

\* mw.require(k): k writable bytes at the end of the buffer, after a flush
\* when the buffer has no room for them (fl says whether it had none: "no",
\* flushed "ok", or the sink refused "fail").  The k bytes hold whatever the
\* buffer's memory held before (stale).
require(w, k, fl, stale) ==
    IF fl = "fail"
    THEN [mw |-> w, o |-> 0, err |-> Err("SinkError", 0, 0)]
    ELSE LET w1 == IF fl = "ok" THEN Flush(w) ELSE w
         IN  [mw |-> [w1 EXCEPT !.buf = w1.buf \o Fill(k, stale)],
              o |-> Len(w1.buf), err |-> NoErr]

\* the header part of WriteExtension: the switch on l
WriteExtHeader(w, e, fl, stale) ==
    LET l == ExtLen(e)
        t == Byte(ExtensionType(e))
        fix(p) == [mw |-> [w EXCEPT !.buf = w.buf \o <<p, t>>], err |-> NoErr]
    IN  CASE l = 0 ->
                LET r == require(w, 3, fl, stale)
                IN  IF r.err # NoErr THEN [mw |-> r.mw, err |-> r.err]
                    ELSE [mw |-> [r.mw EXCEPT !.buf =
                                    Put(Put(Put(r.mw.buf, r.o, mext8),
                                            r.o + 1, 0), r.o + 2, t)],
                          err |-> NoErr]
          [] l = 1  -> fix(mfixext1)
          [] l = 2  -> fix(mfixext2)
          [] l = 4  -> fix(mfixext4)
          [] l = 8  -> fix(mfixext8)
          [] l = 16 -> fix(mfixext16)
          [] OTHER ->
                IF l < MaxUint8
                THEN LET r == require(w, 3, fl, stale)
                     IN  IF r.err # NoErr THEN [mw |-> r.mw, err |-> r.err]
                         ELSE [mw |-> [r.mw EXCEPT !.buf =
                                        Put(Put(Put(r.mw.buf, r.o, mext8),
                                                r.o + 1, l % 256), r.o + 2, t)],
                               err |-> NoErr]
                ELSE IF l < MaxUint16
                THEN LET r == require(w, 4, fl, stale)
                     IN  IF r.err # NoErr THEN [mw |-> r.mw, err |-> r.err]
                         ELSE [mw |-> [r.mw EXCEPT !.buf =
                                        Put(PutUint16(Put(r.mw.buf, r.o, mext16),
                                                      r.o + 1, l % 65536), 3, t)],
                               err |-> NoErr]
                ELSE LET r == require(w, 6, fl, stale)
                     IN  IF r.err # NoErr THEN [mw |-> r.mw, err |-> r.err]
                         ELSE [mw |-> [r.mw EXCEPT !.buf =
                                        Put(PutUint32(Put(r.mw.buf, r.o, mext32),
                                                      r.o + 1, l), 5, t)],
                               err |-> NoErr]

\* WriteExtension(e): the Writer afterwards and the error
WriteExtension(w, e, fl1, fl2, stale) ==
    LET h == WriteExtHeader(w, e, fl1, stale)
    IN  IF h.err # NoErr THEN h
        ELSE LET r == require(h.mw, ExtLen(e), fl2, stale)
             IN  IF r.err # NoErr THEN [mw |-> r.mw, err |-> r.err]
                 ELSE [mw |-> [r.mw EXCEPT !.buf =
                                 Slice(r.mw.buf, 0, r.o) \o
                                 MarshalBinaryTo(e, From(r.mw.buf, r.o))],
                       err |-> NoErr]

-----------------------------------------------------------------------------
(* ReadExtensionBytes (slice API)                                          *)
(* A decoder's result is [rem, err, e, calls]: the returned slice (or what *)
(* is left of the source), the error, the extension afterwards and the     *)
(* slices handed to e.UnmarshalBinary, in order.                           *)

Result(rem, err, e, calls) == [rem |-> rem, err |-> err, e |-> e, calls |-> calls]

\* the switch on the lead byte with no case of its own for an ext8 of
\* length 0
ReadExtBytesHeaderNoZero(b, e) ==
    LET lead == At(b, 0)
        hdr(typ, sz, off) == [stop |-> FALSE, typ |-> typ, sz |-> sz, off |-> off,
                              res |-> Result(b, NoErr, e, << >>)]
        ret(r) == [stop |-> TRUE, typ |-> 0, sz |-> 0, off |-> 0, res |-> r]
    IN  CASE lead \in {mfixext1, mfixext2, mfixext4, mfixext8, mfixext16} ->
                hdr(Int8(At(b, 1)),
                    CASE lead = mfixext1 -> 1 [] lead = mfixext2 -> 2
                      [] lead = mfixext4 -> 4 [] lead = mfixext8 -> 8
                      [] OTHER -> 16,
                    2)
          [] lead = mext8 -> hdr(Int8(At(b, 2)), At(b, 1), 3)
          [] lead = mext16 ->
                IF Len(b) < 4 THEN ret(Result(b, ErrShortBytes, e, << >>))
                ELSE hdr(Int8(At(b, 3)), Uint16(b, 1), 4)
          [] lead = mext32 ->
                IF Len(b) < 6 THEN ret(Result(b, ErrShortBytes, e, << >>))
                ELSE hdr(Int8(At(b, 5)), Uint32(b, 1), 6)
          [] OTHER -> ret(Result(b, TypeError(lead), e, << >>))

\* the switch on the lead byte: size and offset of the data, and the type id
\* (stop: the result the case returns itself)
ReadExtBytesHeader(b, e) ==
    LET l    == Len(b)
        lead == At(b, 0)
        hdr(typ, sz, off) == [stop |-> FALSE, typ |-> typ, sz |-> sz, off |-> off,
                              res |-> Result(b, NoErr, e, << >>)]
        ret(r) == [stop |-> TRUE, typ |-> 0, sz |-> 0, off |-> 0, res |-> r]
    IN  CASE lead = mfixext1  -> hdr(Int8(At(b, 1)), 1, 2)
          [] lead = mfixext2  -> hdr(Int8(At(b, 1)), 2, 2)
          [] lead = mfixext4  -> hdr(Int8(At(b, 1)), 4, 2)
          [] lead = mfixext8  -> hdr(Int8(At(b, 1)), 8, 2)
          [] lead = mfixext16 -> hdr(Int8(At(b, 1)), 16, 2)
          [] lead = mext8 ->
                IF At(b, 1) = 0
                THEN LET u == UnmarshalBinary(e, Slice(b, 3, 3))
                     IN  ret(Result(From(b, 3), u.err, u.e, <<Slice(b, 3, 3)>>))
                ELSE hdr(Int8(At(b, 2)), At(b, 1), 3)
          [] lead = mext16 ->
                IF l < 4 THEN ret(Result(b, ErrShortBytes, e, << >>))
                ELSE hdr(Int8(At(b, 3)), Uint16(b, 1), 4)
          [] lead = mext32 ->
                IF l < 6 THEN ret(Result(b, ErrShortBytes, e, << >>))
                ELSE hdr(Int8(At(b, 5)), Uint32(b, 1), 6)
          [] OTHER -> ret(Result(b, TypeError(lead), e, << >>))

\* ReadExtensionBytes(b, e)
ReadExtensionBytes(b, e) ==
    IF Len(b) < 3
    THEN Result(b, ErrShortBytes, e, << >>)
    ELSE LET h == ReadExtBytesHeader(b, e)
         IN  IF h.stop THEN h.res
             ELSE IF h.typ # ExtensionType(e)
             THEN Result(b, errExt(h.typ, ExtensionType(e)), e, << >>)
             ELSE IF Len(b) - h.off < h.sz
             THEN Result(b, ErrShortBytes, e, << >>)
             ELSE LET d == Slice(b, h.off, h.off + h.sz)
                      u == UnmarshalBinary(e, d)
                  IN  Result(From(b, h.off + h.sz), u.err, u.e, <<d>>)

-----------------------------------------------------------------------------
(* peekExtension (slice API).  Its result is [typ, err, panic]: the type   *)
(* id, the error, and whether an index expression was out of range (a run- *)
(* time panic).                                                            *)

NoPeek == [typ |-> 0, err |-> NoErr, panic |-> FALSE]

\* return int8(b[i]), nil: the index is checked at run time
peekAt(b, i) ==
    IF i >= Len(b) THEN [typ |-> 0, err |-> NoErr, panic |-> TRUE]
    ELSE [typ |-> Int8(At(b, i)), err |-> NoErr, panic |-> FALSE]
\* return 0, err
peekErr(err) == [typ |-> 0, err |-> err, panic |-> FALSE]

\* peekExtension(b)
peekExtension(b) ==
    LET lead == At(b, 0)
    IN  CASE lead \in {mfixext1, mfixext2, mfixext4, mfixext8, mfixext16} ->
                peekAt(b, 1)
          [] lead = mext8  -> peekAt(b, 2)
          [] lead = mext16 ->
                IF Len(b) < 4 THEN peekErr(ErrShortBytes) ELSE peekAt(b, 3)
          [] lead = mext32 ->
                IF Len(b) < 5 THEN peekErr(ErrShortBytes) ELSE peekAt(b, 5)
          [] OTHER -> peekErr(InvalidPrefixError(lead))

-----------------------------------------------------------------------------
(* Reader.ReadExtension (streaming API).  The Reader's source is the       *)
(* sequence of bytes not yet skipped.                                      *)

\* m.r.Peek(k): the next k bytes without advancing, or an error
Peek(r, k) ==
    IF Len(r) >= k THEN [p |-> Slice(r, 0, k), err |-> NoErr]
    ELSE IF Len(r) = 0 THEN [p |-> << >>, err |-> ErrEOF]
    ELSE [p |-> << >>, err |-> ErrShortBytes]

\* m.r.Skip(k): advance by k bytes
Skip(r, k) == From(r, k)

\* Peek(n), UnmarshalBinary(p[off:]), and Skip(n) when that returned no error
ReadExtBody(r, e, n, off) ==
    LET pk == Peek(r, n)
    IN  IF pk.err # NoErr THEN Result(r, pk.err, e, << >>)
        ELSE LET d == From(pk.p, off)
                 u == UnmarshalBinary(e, d)
             IN  IF u.err = NoErr
                 THEN Result(Skip(r, n), NoErr, u.e, <<d>>)
                 ELSE Result(r, u.err, u.e, <<d>>)

\* a fixext case: the type is checked on the first two bytes, then the
\* whole object is peeked
ReadExtFix(r, e, p, n) ==
    IF Int8(At(p, 1)) # ExtensionType(e)
    THEN Result(r, errExt(Int8(At(p, 1)), ExtensionType(e)), e, << >>)
    ELSE ReadExtBody(r, e, n, 2)

\* an ext8/ext16/ext32 case: peek the header of hl bytes, check the type at
\* its last byte, read the length, then the body
ReadExtVar(r, e, hl, width) ==
    LET pk == Peek(r, hl)
    IN  IF pk.err # NoErr THEN Result(r, pk.err, e, << >>)
        ELSE IF Int8(At(pk.p, hl - 1)) # ExtensionType(e)
        THEN Result(r, errExt(Int8(At(pk.p, hl - 1)), ExtensionType(e)), e, << >>)
        ELSE LET read == CASE width = 1 -> At(pk.p, 1)
                           [] width = 2 -> Uint16(pk.p, 1)
                           [] OTHER     -> Uint32(pk.p, 1)
             IN  ReadExtBody(r, e, read + hl, hl)

\* ReadExtension(e)
ReadExtension(r, e) ==
    LET pk == Peek(r, 2)
    IN  IF pk.err # NoErr THEN Result(r, pk.err, e, << >>)
        ELSE LET lead == At(pk.p, 0)
             IN  CASE lead = mfixext1  -> ReadExtFix(r, e, pk.p, 3)
                   [] lead = mfixext2  -> ReadExtFix(r, e, pk.p, 4)
                   [] lead = mfixext4  -> ReadExtFix(r, e, pk.p, 6)
                   [] lead = mfixext8  -> ReadExtFix(r, e, pk.p, 10)
                   [] lead = mfixext16 -> ReadExtFix(r, e, pk.p, 18)
                   [] lead = mext8     -> ReadExtVar(r, e, 3, 1)
                   [] lead = mext16    -> ReadExtVar(r, e, 4, 2)
                   [] lead = mext32    -> ReadExtVar(r, e, 6, 4)
                   [] OTHER -> Result(r, TypeError(lead), e, << >>)

-----------------------------------------------------------------------------
(* The extension codec as a state machine: an extension is encoded (by     *)
(* AppendExtension, by a Writer, or the bytes come from elsewhere), then a *)
(* decoder is called on the bytes.                                         *)

\* the type ids in play: a positive one and a negative one
ExtTypes == {10, -3}
\* the payload lengths in play: the small ones and the width boundaries
PayloadLens ==
    (0..MaxSmallLen) \cup {MaxUint8 - 1, MaxUint8, MaxUint8 + 1,
                           MaxUint16, MaxUint16 + 1}
\* a payload of l bytes
PayloadBytes == [i \in 1..LongestSlice |-> (7 * i + 3) % 256]
PayloadOf(l) == SubSeq(PayloadBytes, 1, l)
\* the long payloads, exercised on fewer combinations of the other inputs
LongLens == {l \in PayloadLens : l > MaxUint8 + 1}
\* n bytes of earlier objects (positive fixints 1, 2, ...)
PreBuf(n) == [i \in 1..n |-> i]
\* what a reused buffer may hold where nothing was written yet
StaleBytes == {0, 170}
\* the extensions a decoder is called with
Destinations ==
    {RawExtension(t, << >>) : t \in ExtTypes} \cup {UserExtension(10)}

NoOrigin ==
    [op |-> "none", e |-> RawExtension(0, << >>), pre |-> << >>, kind |-> 0,
     whole |-> FALSE, objlen |-> 0, err |-> NoErr]
NoLast ==
    [op |-> "none", want |-> RawExtension(0, << >>),
     res |-> Result(<< >>, NoErr, RawExtension(0, << >>), << >>)]
EmptyWriter == [buf |-> << >>, sink |-> << >>]

InitExt ==
    /\ phase = "idle"
    /\ origin = NoOrigin
    /\ mw = EmptyWriter
    /\ wire = << >>
    /\ last = NoLast
    /\ peeked = NoPeek

\* AppendExtension(b, e) on a slice b that already holds pre
DoAppendExtension ==
    /\ phase = "idle"
    /\ \E l \in PayloadLens, t \in ExtTypes, n \in 0..1 :
          LET e == RawExtension(t, PayloadOf(l))
              r == AppendExtension(PreBuf(n), e)
          IN  /\ (l \in LongLens => n = 0 /\ t = 10)
              /\ wire' = From(r.b, n)
              /\ origin' = [NoOrigin EXCEPT !.op = "AppendExtension", !.e = e,
                                            !.pre = Slice(r.b, 0, n),
                                            !.objlen = Len(r.b) - n,
                                            !.err = r.err]
    /\ phase' = "encoded"
    /\ UNCHANGED <<mw, last>>
    /\ UNCHANGED <<peeked, regVars, parseVars, wireVars, errVars>>

\* Writer.WriteExtension(e) on a Writer that holds pre unflushed
DoWriteExtension ==
    /\ phase = "idle"
    /\ \E l \in PayloadLens, t \in ExtTypes, n \in 0..MaxPre,
          fl1 \in {"no", "ok", "fail"}, fl2 \in {"no", "ok", "fail"},
          stale \in StaleBytes :
          LET e == RawExtension(t, PayloadOf(l))
              r == WriteExtension([buf |-> PreBuf(n), sink |-> << >>],
                                  e, fl1, fl2, stale)
          IN  \* a buffer that holds nothing is not flushed
              /\ (n = 0 => fl1 = "no")
              /\ (l \in LongLens =>
                    t = 10 /\ stale = 0 /\ fl2 = "no" /\ n \in {0, MaxPre})
              /\ mw' = r.mw
              /\ origin' = [NoOrigin EXCEPT !.op = "WriteExtension", !.e = e,
                                            !.pre = PreBuf(n),
                                            !.err = r.err]
    /\ phase' = "written"
    /\ UNCHANGED <<wire, last>>
    /\ UNCHANGED <<peeked, regVars, parseVars, wireVars, errVars>>

\* Writer.Flush, after which a Reader that has read the earlier objects
\* stands at the extension
DoFlush ==
    /\ phase = "written"
    /\ mw' = Flush(mw)
    /\ wire' = From(mw'.sink, Len(origin.pre))
    /\ origin' = [origin EXCEPT !.objlen = Len(mw'.sink) - Len(origin.pre)]
    /\ phase' = "encoded"
    /\ UNCHANGED last
    /\ UNCHANGED <<peeked, regVars, parseVars, wireVars, errVars>>

\* the header of an extension object of the given prefix
CraftHeader(kind, l, t) ==
    CASE kind = mext8  -> <<mext8, l % 256, Byte(t)>>
      [] kind = mext16 -> <<mext16, (l \div 256) % 256, l % 256, Byte(t)>>
      [] kind = mext32 -> <<mext32, 0, 0, (l \div 256) % 256, l % 256, Byte(t)>>
      [] OTHER -> <<kind, Byte(t)>>
\* the payload lengths a prefix can declare
CraftLens(kind) ==
    CASE kind = mfixext1  -> {1}
      [] kind = mfixext2  -> {2}
      [] kind = mfixext4  -> {4}
      [] kind = mfixext8  -> {8}
      [] kind = mfixext16 -> {16}
      [] OTHER -> 0..MaxCraftLen
ExtKinds == {mfixext1, mfixext2, mfixext4, mfixext8, mfixext16,
             mext8, mext16, mext32}

\* bytes from another encoder: a well-formed extension object of any prefix,
\* followed by other bytes or cut short, or an object that is no extension
DoReceive ==
    /\ phase = "idle"
    /\ \E kind \in ExtKinds \cup {mnil}, t \in ExtTypes :
       \E l \in CraftLens(kind) :
          LET e   == RawExtension(t, PayloadOf(l))
              obj == CraftHeader(kind, l, t) \o e.Data
          IN  \E cut \in 0..(Len(obj) + MaxTrail) :
                /\ wire' = IF cut <= Len(obj) THEN Slice(obj, 0, cut)
                           ELSE obj \o PreBuf(cut - Len(obj))
                /\ origin' = [NoOrigin EXCEPT !.op = "receive", !.e = e,
                                              !.kind = kind,
                                              !.whole = (cut >= Len(obj)),
                                              !.objlen = Len(obj)]
    /\ phase' = "encoded"
    /\ UNCHANGED <<mw, last>>
    /\ UNCHANGED <<peeked, regVars, parseVars, wireVars, errVars>>

\* ReadExtensionBytes(wire, e)
DoReadExtensionBytes ==
    /\ phase = "encoded"
    /\ \E e \in Destinations :
          last' = [op |-> "ReadExtensionBytes", want |-> e,
                   res |-> ReadExtensionBytes(wire, e)]
    /\ phase' = "decoded"
    /\ UNCHANGED <<origin, mw, wire>>
    /\ UNCHANGED <<peeked, regVars, parseVars, wireVars, errVars>>

\* Reader.ReadExtension(e) on a Reader whose source holds wire
DoReadExtension ==
    /\ phase = "encoded"
    /\ \E e \in Destinations :
          last' = [op |-> "ReadExtension", want |-> e,
                   res |-> ReadExtension(wire, e)]
    /\ phase' = "decoded"
    /\ UNCHANGED <<origin, mw, wire>>
    /\ UNCHANGED <<peeked, regVars, parseVars, wireVars, errVars>>

\* peekExtension(wire), called as its comment demands: on 3 bytes or more
DoPeekExtension ==
    /\ phase = "encoded"
    /\ Len(wire) >= 3
    /\ peeked' = peekExtension(wire)
    /\ phase' = "peeked"
    /\ UNCHANGED <<origin, mw, wire, last>>
    /\ UNCHANGED <<regVars, parseVars, wireVars, errVars>>

\* the scenario starts over
ResetExt ==
    /\ phase \in {"decoded", "peeked"}
    /\ phase' = "idle"
    /\ origin' = NoOrigin
    /\ mw' = EmptyWriter
    /\ wire' = << >>
    /\ last' = NoLast
    /\ peeked' = NoPeek
    /\ UNCHANGED <<regVars, parseVars, wireVars, errVars>>

NextExt ==
    \/ DoPeekExtension
    \/ DoAppendExtension
    \/ DoWriteExtension
    \/ DoFlush
    \/ DoReceive
    \/ DoReadExtensionBytes
    \/ DoReadExtension
    \/ ResetExt

-----------------------------------------------------------------------------
(* The extension registry                                                  *)

\* the ids RegisterExtension refuses: complex64, complex128, time.Time
ReservedTypes == {3, 4, 5}
\* the ids and factories the calls draw from
RegIds == ReservedTypes \cup {10, 11, -1}
Factories == {"f1", "f2"}

\* extensionReg[typ] = f
RegPut(reg, typ, f) ==
    [x \in (DOMAIN reg) \cup {typ} |-> IF x = typ THEN f ELSE reg[x]]

\* RegisterExtension that does not test for an id registered before
RegisterExtensionOverwrites(reg, typ, f) ==
    IF typ \in ReservedTypes
    THEN [reg |-> reg, panic |-> "forbidden extension type"]
    ELSE [reg |-> RegPut(reg, typ, f), panic |-> "none"]

\* RegisterExtension(typ, f): the registry afterwards and whether it panicked
RegisterExtension(reg, typ, f) ==
    IF typ \in ReservedTypes
    THEN [reg |-> reg, panic |-> "forbidden extension type"]
    ELSE IF typ \in DOMAIN reg
    THEN [reg |-> reg, panic |-> "called more than once"]
    ELSE [reg |-> RegPut(reg, typ, f), panic |-> "none"]

InitReg ==
    /\ extensionReg = << >>
    /\ regCalls = << >>

DoRegisterExtension ==
    /\ Len(regCalls) < MaxCalls
    /\ \E typ \in RegIds, f \in Factories :
          LET r == RegisterExtension(extensionReg, typ, f)
          IN  /\ extensionReg' = r.reg
              /\ regCalls' = Append(regCalls,
                                    [typ |-> typ, f |-> f, panic |-> r.panic])
    /\ UNCHANGED <<concVars, extVars, parseVars, wireVars, errVars>>

\* a process start: the registry is empty again
RestartReg ==
    /\ regCalls # << >>
    /\ extensionReg' = << >>
    /\ regCalls' = << >>
    /\ UNCHANGED <<concVars, extVars, parseVars, wireVars, errVars>>

NextReg ==
    \/ DoRegisterExtension
    \/ RestartReg

-----------------------------------------------------------------------------
(* RegisterExtension called from two goroutines.  The function takes no    *)
(* lock: a call is the switch on typ, the lookup extensionReg[typ] and the *)
(* store extensionReg[typ] = f, and the steps of two calls interleave.  A  *)
(* map access that runs while another goroutine writes the map is a data   *)
(* race: the process may be stopped by the runtime (concurrent map         *)
(* writes, concurrent map read and map write), or go on with either view   *)
(* of the map.  A panic is taken to be recovered by the caller.            *)

Goroutines == {1, 2}
Other(g) == 3 - g
NoCall == [pc |-> "idle", typ |-> 0, f |-> "f1", panic |-> "none"]
\* the ids the two calls draw from, and the registry they may find
ConcIds == {3, 10, 11}
StartRegs == {<< >>, RegisterExtension(<< >>, 10, "f1").reg}

\* a lookup that never finds the id
RegisteredNever(reg, typ) == FALSE
\* _, ok := extensionReg[typ]
Registered(reg, typ) == typ \in DOMAIN reg

InitConc ==
    /\ goCalls = [g \in Goroutines |-> NoCall]
    /\ crashed = FALSE
    /\ overlap = FALSE
    /\ ended = << >>
    /\ regBefore = << >>

\* the call of goroutine g has ended with the given panic ("none": returned)
EndCall(g, panic) ==
    /\ goCalls' = [goCalls EXCEPT ![g].pc = IF panic = "none" THEN "returned"
                                            ELSE "panicked",
                                  ![g].panic = panic]
    /\ ended' = Append(ended, g)

Running(g) == goCalls[g].pc \in {"lookup", "store", "storing"}

\* go RegisterExtension(typ1, f1); go RegisterExtension(typ2, f2)
GoRegisterExtension ==
    /\ \A g \in Goroutines : goCalls[g].pc = "idle"
    /\ regCalls = << >>
    /\ \E t1 \in ConcIds, t2 \in ConcIds, f1 \in Factories, f2 \in Factories,
          r0 \in StartRegs :
          /\ goCalls' = [g \in Goroutines |->
                            [pc |-> "switch", typ |-> IF g = 1 THEN t1 ELSE t2,
                             f |-> IF g = 1 THEN f1 ELSE f2, panic |-> "none"]]
          /\ extensionReg' = r0
          /\ regBefore' = r0
    /\ UNCHANGED <<regCalls, crashed, overlap, ended>>
    /\ UNCHANGED <<extVars, parseVars, wireVars, errVars>>

\* switch typ { case 3, 4, 5: panic }
StepSwitch ==
    /\ ~crashed
    /\ \E g \in Goroutines :
          /\ goCalls[g].pc = "switch"
          /\ overlap' = (overlap \/ Running(Other(g)))
          /\ IF goCalls[g].typ \in ReservedTypes
             THEN EndCall(g, "forbidden extension type")
             ELSE /\ goCalls' = [goCalls EXCEPT ![g].pc = "lookup"]
                  /\ ended' = ended
    /\ UNCHANGED <<extensionReg, regCalls, crashed, regBefore>>
    /\ UNCHANGED <<extVars, parseVars, wireVars, errVars>>

\* if _, ok := extensionReg[typ]; ok { panic }.  While the other goroutine
\* stores its own entry for the same id the lookup may see it or not.
StepLookup ==
    /\ ~crashed
    /\ \E g \in Goroutines :
          /\ goCalls[g].pc = "lookup"
          /\ \E ok \in BOOLEAN :
                /\ \/ ok = Registered(extensionReg, goCalls[g].typ)
                   \/ /\ goCalls[Other(g)].pc = "storing"
                      /\ goCalls[Other(g)].typ = goCalls[g].typ
                /\ IF ok
                   THEN EndCall(g, "called more than once")
                   ELSE /\ goCalls' = [goCalls EXCEPT ![g].pc = "store"]
                        /\ ended' = ended
    /\ UNCHANGED <<extensionReg, regCalls, crashed, overlap, regBefore>>
    /\ UNCHANGED <<extVars, parseVars, wireVars, errVars>>

\* extensionReg[typ] = f begins
StepStoreBegin ==
    /\ ~crashed
    /\ \E g \in Goroutines :
          /\ goCalls[g].pc = "store"
          /\ goCalls' = [goCalls EXCEPT ![g].pc = "storing"]
    /\ UNCHANGED <<extensionReg, regCalls, crashed, overlap, ended, regBefore>>
    /\ UNCHANGED <<extVars, parseVars, wireVars, errVars>>

\* extensionReg[typ] = f is done and the call returns
StepStoreEnd ==
    /\ ~crashed
    /\ \E g \in Goroutines :
          /\ goCalls[g].pc = "storing"
          /\ extensionReg' = RegPut(extensionReg, goCalls[g].typ, goCalls[g].f)
          /\ EndCall(g, "none")
    /\ UNCHANGED <<regCalls, crashed, overlap, regBefore>>
    /\ UNCHANGED <<extVars, parseVars, wireVars, errVars>>

\* the runtime finds the map read or written while a goroutine writes it
FatalMapAccess ==
    /\ ~crashed
    /\ \E g \in Goroutines :
          /\ goCalls[g].pc = "storing"
          /\ goCalls[Other(g)].pc \in {"lookup", "storing"}
    /\ crashed' = TRUE
    /\ UNCHANGED <<extensionReg, regCalls, goCalls, overlap, ended, regBefore>>
    /\ UNCHANGED <<extVars, parseVars, wireVars, errVars>>

\* both calls have ended
BothEnded == \A g \in Goroutines : goCalls[g].pc \in {"returned", "panicked"}

\* a process start
RestartConc ==
    /\ crashed \/ BothEnded
    /\ goCalls' = [g \in Goroutines |-> NoCall]
    /\ crashed' = FALSE
    /\ overlap' = FALSE
    /\ ended' = << >>
    /\ regBefore' = << >>
    /\ extensionReg' = << >>
    /\ UNCHANGED regCalls
    /\ UNCHANGED <<extVars, parseVars, wireVars, errVars>>

NextConc ==
    \/ GoRegisterExtension
    \/ StepSwitch
    \/ StepLookup
    \/ StepStoreBegin
    \/ StepStoreEnd
    \/ FatalMapAccess
    \/ RestartConc

-----------------------------------------------------------------------------
(* Package parse: the syntax the ingester reads (go/ast)                   *)
(* An expression is [k, name, sub, fields, lenk, lenv, n]:                 *)
(*   Ident      name                                                       *)
(*   Star       sub = <<X>>                                                *)
(*   Array      sub = <<Elt>>, Len of kind lenk ("nil" for a slice) and    *)
(*              text lenv                                                  *)
(*   Map        sub = <<Key, Value>>                                       *)
(*   Struct     fields                                                     *)
(*   Selector   sub = <<X>>, name = Sel.Name                               *)
(*   Interface  n methods                                                  *)
(*   Func       (any expression the ingester does not know)                *)
(* A field is [Names, Type, Tag]; a tag is [present, name, rest]: the      *)
(* msg value split at its commas, name the first piece and rest the        *)
(* others, each piece [pre, parts] a prefix "as:" / "using:" / "" and what *)
(* follows it split at "/".                                                *)

Expr(k, name, sub, fields, lenk, lenv, n) ==
    [k |-> k, name |-> name, sub |-> sub, fields |-> fields,
     lenk |-> lenk, lenv |-> lenv, n |-> n]
Ident(name)     == Expr("Ident", name, << >>, << >>, "nil", "", 0)
Star(x)         == Expr("Star", "", <<x>>, << >>, "nil", "", 0)
SliceOf(x)      == Expr("Array", "", <<x>>, << >>, "nil", "", 0)
ArrayOf(lk, lv, x) == Expr("Array", "", <<x>>, << >>, lk, lv, 0)
MapOf(key, x)   == Expr("Map", "", <<key, x>>, << >>, "nil", "", 0)
StructOf(fl)    == Expr("Struct", "", << >>, fl, "nil", "", 0)
Selector(x, sel) == Expr("Selector", sel, <<x>>, << >>, "nil", "", 0)
Interface(n)    == Expr("Interface", "", << >>, << >>, "nil", "", n)
FuncType        == Expr("Func", "", << >>, << >>, "nil", "", 0)

Piece(pre, parts) == [pre |-> pre, parts |-> parts]
NoTag          == [present |-> FALSE, name |-> "", rest |-> << >>]
Tag(name, rest) == [present |-> TRUE, name |-> name, rest |-> rest]
Field(names, type, tag) == [Names |-> names, Type |-> type, Tag |-> tag]
TypeSpec(name, type) == [Name |-> name, Type |-> type]

(* The element tree (package gen).  A node is                              *)
(* [t, sub, Size, Name, Fields, Value, Ident, Convert, ShimToBase,         *)
(*  ShimFromBase]; sub holds Ptr.Value, Slice.Els, Array.Els or Map.Value; *)
(* t = "nil" is the nil Elem.                                              *)

Elem(t, sub, size, name, fields, value, ident, convert, to, from) ==
    [t |-> t, sub |-> sub, Size |-> size, Name |-> name, Fields |-> fields,
     Value |-> value, Ident |-> ident, Convert |-> convert,
     ShimToBase |-> to, ShimFromBase |-> from]
NilElem        == Elem("nil", << >>, "", "", << >>, "", "", FALSE, "", "")
PtrElem(v)     == Elem("Ptr", <<v>>, "", "", << >>, "", "", FALSE, "", "")
SliceElem(v)   == Elem("Slice", <<v>>, "", "", << >>, "", "", FALSE, "", "")
ArrayElem(sz, v) == Elem("Array", <<v>>, sz, "", << >>, "", "", FALSE, "", "")
MapElem(v)     == Elem("Map", <<v>>, "", "", << >>, "", "", FALSE, "", "")
StructElem(nm, fl) == Elem("Struct", << >>, "", nm, fl, "", "", FALSE, "", "")
BaseElem(value, ident, convert, to, from) ==
    Elem("Base", << >>, "", "", << >>, value, ident, convert, to, from)
StructField(tag, name, el) ==
    [FieldTag |-> tag, FieldName |-> name, FieldElem |-> el]

\* pullIdent(name)
pullIdent(name) ==
    CASE name = "string"      -> "String"
      [] name = "[]byte"      -> "Bytes"
      [] name = "byte"        -> "Byte"
      [] name = "int"         -> "Int"
      [] name = "int8"        -> "Int8"
      [] name = "int16"       -> "Int16"
      [] name = "int32"       -> "Int32"
      [] name = "int64"       -> "Int64"
      [] name = "uint"        -> "Uint"
      [] name = "uint8"       -> "Uint8"
      [] name = "uint16"      -> "Uint16"
      [] name = "uint32"      -> "Uint32"
      [] name = "uint64"      -> "Uint64"
      [] name = "bool"        -> "Bool"
      [] name = "float64"     -> "Float64"
      [] name = "float32"     -> "Float32"
      [] name = "complex64"   -> "Complex64"
      [] name = "complex128"  -> "Complex128"
      [] name = "time.Time"   -> "Time"
      [] name = "interface{}" -> "Intf"
      [] name \in {"msgp.Extension", "Extension"} -> "Ext"
      [] OTHER -> "IDENT"

\* embedded(f): the name of an embedded field
RECURSIVE embedded(_)
embedded(f) ==
    CASE f.k = "Ident" -> f.name
      [] f.k = "Star"  -> embedded(f.sub[1])
      [] OTHER -> ""

\* parseShim(as, using)
parseShim(as, using) ==
    [tp   |-> pullIdent(as.parts[1]),
     to   |-> IF Len(using.parts) = 2 THEN using.parts[1] ELSE "",
     from |-> IF Len(using.parts) = 2 THEN using.parts[2] ELSE ""]

-----------------------------------------------------------------------------
(* Pass 2, elaboration: parseExpr and parseFieldList                       *)

RECURSIVE parseExpr(_), parseFieldList(_), parseField(_)

\* parseExpr(e): the element of a type expression, NilElem when unsupported
parseExpr(e) ==
    CASE e.k = "Map" ->
            IF e.sub[1].k = "Ident" /\ e.sub[1].name = "string"
               /\ parseExpr(e.sub[2]) # NilElem
            THEN MapElem(parseExpr(e.sub[2]))
            ELSE NilElem
      [] e.k = "Ident" ->
            IF pullIdent(e.name) = "IDENT"
            THEN BaseElem("IDENT", e.name, FALSE, "", "")
            ELSE BaseElem(pullIdent(e.name), "", FALSE, "", "")
      [] e.k = "Array" ->
            IF e.lenk = "nil" /\ e.sub[1].k = "Ident" /\ e.sub[1].name = "byte"
            THEN BaseElem("Bytes", "", FALSE, "", "")
            ELSE LET els == parseExpr(e.sub[1])
                 IN  IF els = NilElem THEN NilElem
                     ELSE IF e.lenk # "nil"
                     THEN IF e.lenk \in {"BasicLit", "Ident"}
                          THEN ArrayElem(e.lenv, els)
                          ELSE NilElem
                     ELSE SliceElem(els)
      [] e.k = "Star" ->
            LET v == parseExpr(e.sub[1])
            IN  IF v # NilElem THEN PtrElem(v) ELSE NilElem
      [] e.k = "Struct" ->
            LET fields == parseFieldList(e.fields)
            IN  IF Len(fields) > 0 THEN StructElem("", fields) ELSE NilElem
      [] e.k = "Selector" ->
            IF e.sub[1].k = "Ident"
            THEN IF e.name = "Time" /\ e.sub[1].name = "time"
                 THEN BaseElem("Time", "", FALSE, "", "")
                 ELSE BaseElem("IDENT", e.sub[1].name \o "." \o e.name,
                               FALSE, "", "")
            ELSE NilElem
      [] e.k = "Interface" ->
            IF e.n = 0 THEN BaseElem("Intf", "", FALSE, "", "") ELSE NilElem
      [] OTHER -> NilElem

\* the part of parseFieldList's loop body after the field name is known:
\* the tag, the type, the extension mark.  The fields it appends to out.
FieldAfterName(field, name) ==
    LET tg      == field.Tag
        ntags   == 1 + Len(tg.rest)
        flagExtension ==
            tg.present /\ ntags = 2 /\ tg.rest[1] = Piece("", <<"extension">>)
        isShim  == tg.present /\ ntags = 3
                   /\ tg.rest[1].pre = "as:" /\ tg.rest[2].pre = "using:"
        tag0    == IF tg.present THEN tg.name ELSE ""
        FieldTag == IF tag0 = "" THEN name ELSE tag0
        e       == parseExpr(field.Type)
    IN  IF isShim
        THEN LET sh == parseShim(tg.rest[1], tg.rest[2])
             IN  IF sh.to # "" /\ sh.from # ""
                 THEN <<StructField(tg.name, name,
                            BaseElem(sh.tp, "", TRUE, sh.to, sh.from))>>
                 ELSE << >>
        ELSE IF FieldTag = "-" THEN << >>
        ELSE IF e = NilElem THEN << >>
        ELSE IF flagExtension
        THEN CASE e.t = "Ptr" ->
                    IF e.sub[1].t = "Base"
                    THEN <<StructField(FieldTag, name,
                             PtrElem([e.sub[1] EXCEPT !.Value = "Ext"]))>>
                    ELSE << >>
               [] e.t = "Base" ->
                    <<StructField(FieldTag, name, [e EXCEPT !.Value = "Ext"])>>
               [] OTHER -> << >>
        ELSE <<StructField(FieldTag, name, e)>>

\* one iteration of parseFieldList's loop: the fields it appends to out
parseField(field) ==
    CASE Len(field.Names) = 1 -> FieldAfterName(field, field.Names[1])
      [] Len(field.Names) = 0 ->
            IF embedded(field.Type) = "" THEN << >>
            ELSE FieldAfterName(field, embedded(field.Type))
      [] OTHER ->
            \* inline multiple field declaration
            IF parseExpr(field.Type) = NilElem THEN << >>
            ELSE [i \in 1..Len(field.Names) |->
                     StructField(field.Names[i], field.Names[i],
                                 parseExpr(field.Type))]

\* parseFieldList(fl)
parseFieldList(fl) ==
    IF Len(fl) = 0 THEN << >>
    ELSE parseFieldList(SubSeq(fl, 1, Len(fl) - 1)) \o parseField(fl[Len(fl)])

\* GenElem(in): the element, and whether the name is marked processed
GenElem(in) ==
    IF in.Type.k = "Struct"
    THEN LET p == PtrElem(StructElem(in.Name, parseFieldList(in.Type.fields)))
         IN  [el |-> IF Len(p.sub[1].Fields) = 0 THEN NilElem ELSE p,
              processed |-> TRUE]
    ELSE [el |-> NilElem, processed |-> FALSE]

-----------------------------------------------------------------------------
(* Pass 1, registration: GetTypeSpecs                                      *)

\* m[k] = v on a Go map
MapPut(m, k, v) == [x \in (DOMAIN m) \cup {k} |-> IF x = k THEN v ELSE m[x]]

\* the identifier GetTypeSpecs records for one type spec
RecordIdent(idents, ts) ==
    CASE ts.Type.k = "Struct" -> MapPut(idents, ts.Name, "IDENT")
      [] ts.Type.k = "Ident"  -> MapPut(idents, ts.Name, pullIdent(ts.Type.name))
      [] ts.Type.k = "Array"  ->
            IF ts.Type.sub[1].k = "Ident" /\ ts.Type.sub[1].name = "byte"
            THEN MapPut(idents, ts.Name, "Bytes")
            ELSE MapPut(idents, ts.Name, "IDENT")
      [] ts.Type.k = "Star"   -> MapPut(idents, ts.Name, "IDENT")
      [] ts.Type.k = "Map"    -> MapPut(idents, ts.Name, "IDENT")
      [] OTHER -> idents

\* GetTypeSpecs(f): globalIdents after the type specs of f
RECURSIVE GetTypeSpecs(_, _)
GetTypeSpecs(idents, specs) ==
    IF Len(specs) = 0 THEN idents
    ELSE RecordIdent(GetTypeSpecs(idents, SubSeq(specs, 1, Len(specs) - 1)),
                     specs[Len(specs)])

-----------------------------------------------------------------------------
(* The resolver: findUnresolved                                            *)
(* It rewrites Base nodes in place and returns the unresolved names:       *)
(* here [g, unr], the tree afterwards and the returned list.               *)

\* the BaseType case with the lowered type written but Convert left unset
ResolveBaseNoConvert(b, idents, processed) ==
    IF b.Value = "IDENT"
    THEN IF b.Ident \in DOMAIN idents
         THEN IF b.Ident \in processed
              THEN [g |-> b, unr |-> << >>]
              ELSE IF idents[b.Ident] # "IDENT"
              THEN [g |-> BaseElem(idents[b.Ident], b.Ident, FALSE, "", ""),
                    unr |-> << >>]
              ELSE [g |-> b, unr |-> <<b.Ident>>]
         ELSE [g |-> b, unr |-> <<b.Ident>>]
    ELSE [g |-> b, unr |-> << >>]

\* the BaseType case without the look at globalProcessed
ResolveBaseNoProcessed(b, idents, processed) ==
    IF b.Value = "IDENT"
    THEN IF b.Ident \in DOMAIN idents /\ idents[b.Ident] # "IDENT"
         THEN [g |-> BaseElem(idents[b.Ident], b.Ident, TRUE, "", ""),
               unr |-> << >>]
         ELSE [g |-> b, unr |-> <<b.Ident>>]
    ELSE [g |-> b, unr |-> << >>]

\* the BaseType case
ResolveBase(b, idents, processed) ==
    IF b.Value = "IDENT"
    THEN IF b.Ident \in DOMAIN idents
         THEN IF b.Ident \in processed
              THEN [g |-> b, unr |-> << >>]
              ELSE IF idents[b.Ident] # "IDENT"
              THEN [g |-> BaseElem(idents[b.Ident], b.Ident, TRUE, "", ""),
                    unr |-> << >>]
              ELSE [g |-> b, unr |-> <<b.Ident>>]
         ELSE [g |-> b, unr |-> <<b.Ident>>]
    ELSE [g |-> b, unr |-> << >>]

RECURSIVE findUnresolved(_, _, _), ResolveFields(_, _, _)

\* the loop over s.Fields
ResolveFields(fields, idents, processed) ==
    IF Len(fields) = 0 THEN [fields |-> << >>, unr |-> << >>]
    ELSE LET n    == Len(fields)
             head == ResolveFields(SubSeq(fields, 1, n - 1), idents, processed)
             r    == findUnresolved(fields[n].FieldElem, idents, processed)
         IN  [fields |-> Append(head.fields,
                                [fields[n] EXCEPT !.FieldElem = r.g]),
              unr |-> head.unr \o r.unr]

findUnresolved(g, idents, processed) ==
    CASE g.t \in {"Ptr", "Slice", "Map"} ->
            LET r == findUnresolved(g.sub[1], idents, processed)
            IN  [g |-> [g EXCEPT !.sub = <<r.g>>], unr |-> r.unr]
      [] g.t = "Base" -> ResolveBase(g, idents, processed)
      [] g.t = "Struct" ->
            LET r == ResolveFields(g.Fields, idents, processed)
            IN  [g |-> [g EXCEPT !.Fields = r.fields],
                 unr |-> (IF g.Name \notin DOMAIN idents /\ g.Name # ""
                          THEN <<g.Name>> ELSE << >>) \o r.unr]
      [] OTHER -> [g |-> g, unr |-> << >>]

-----------------------------------------------------------------------------
(* The compilation units GetElems is run on                                *)

\* the named types a field refers to
Leaves == {Ident("Celsius"), Ident("Inner"), Ident("Unknown"), Ident("int")}

\* the type expressions of nesting depth at most d
RECURSIVE TypeExprs(_)
TypeExprs(d) ==
    IF d = 0 THEN Leaves
    ELSE LET S == TypeExprs(d - 1)
         IN  S \cup {Star(x) : x \in S} \cup {SliceOf(x) : x \in S}
               \cup {ArrayOf("BasicLit", "3", x) : x \in S}
               \cup {MapOf(Ident("string"), x) : x \in S}

AsPiece(t)        == Piece("as:", <<t>>)
UsingPiece(parts) == Piece("using:", parts)
ExtensionPiece    == Piece("", <<"extension">>)

\* field lists that exercise names, tags and the unsupported types
SpecialFieldLists ==
    { \* type Foo struct { Bar int `msg:"b"`; Skip string `msg:"-"`; Keep bool }
      <<Field(<<"Bar">>, Ident("int"), Tag("b", << >>)),
        Field(<<"Skip">>, Ident("string"), Tag("-", << >>)),
        Field(<<"Keep">>, Ident("bool"), NoTag)>>,
      \* embedded fields
      <<Field(<< >>, Ident("Inner"), NoTag),
        Field(<< >>, Star(Ident("Celsius")), NoTag),
        Field(<< >>, Selector(Ident("pkg"), "T"), NoTag)>>,
      <<Field(<< >>, Ident("Inner"), Tag("-", << >>))>>,
      \* inline multiple field declarations
      <<Field(<<"A", "B">>, Ident("Celsius"), NoTag),
        Field(<<"C", "D">>, FuncType, NoTag)>>,
      <<Field(<<"A", "B">>, Ident("int"), Tag("-", << >>))>>,
      \* extensions
      <<Field(<<"E">>, Ident("Unknown"), Tag("e", <<ExtensionPiece>>)),
        Field(<<"P">>, Star(Ident("Unknown")), Tag("", <<ExtensionPiece>>)),
        Field(<<"Q">>, SliceOf(Ident("Unknown")), Tag("q", <<ExtensionPiece>>)),
        Field(<<"R">>, Star(SliceOf(Ident("int"))), Tag("r", <<ExtensionPiece>>))>>,
      <<Field(<<"E">>, Ident("Unknown"), Tag("-", <<ExtensionPiece>>))>>,
      \* shims
      <<Field(<<"S">>, Ident("Unknown"),
              Tag("s", <<AsPiece("int"), UsingPiece(<<"to", "from">>)>>)),
        Field(<<"U">>, Ident("Unknown"),
              Tag("u", <<AsPiece("Celsius"), UsingPiece(<<"to", "from">>)>>)),
        Field(<<"V">>, Ident("int"),
              Tag("v", <<AsPiece("int"), UsingPiece(<<"to">>)>>))>>,
      <<Field(<<"S">>, Ident("Unknown"),
              Tag("-", <<AsPiece("int"), UsingPiece(<<"to", "from">>)>>))>>,
      <<Field(<<"S">>, Ident("Unknown"),
              Tag("", <<AsPiece("int"), UsingPiece(<<"to", "from">>)>>))>>,
      \* unknown tag pieces
      <<Field(<<"W">>, Ident("int"), Tag("w", <<Piece("", <<"omitempty">>)>>)),
        Field(<<"X">>, Ident("int"),
              Tag("x", <<Piece("", <<"a">>), Piece("", <<"b">>)>>))>>,
      \* the other type expressions
      <<Field(<<"T">>, Selector(Ident("time"), "Time"), NoTag),
        Field(<<"D">>, Selector(Ident("pkg"), "T"), NoTag),
        Field(<<"I">>, Interface(0), NoTag),
        Field(<<"J">>, Interface(1), NoTag),
        Field(<<"F">>, FuncType, NoTag)>>,
      <<Field(<<"B">>, SliceOf(Ident("byte")), NoTag),
        Field(<<"H">>, ArrayOf("BasicLit", "4", Ident("byte")), NoTag),
        Field(<<"N">>, ArrayOf("Ident", "Size", Ident("Celsius")), NoTag),
        Field(<<"O">>, ArrayOf("Selector", "pkg.Size", Ident("int")), NoTag),
        Field(<<"M">>, MapOf(Ident("int"), Ident("int")), NoTag)>>,
      <<Field(<<"G">>, StructOf(<<Field(<<"Y">>, Ident("Celsius"), NoTag),
                                  Field(<<"Z">>, Ident("Gone"), NoTag)>>), NoTag),
        Field(<<"K">>, StructOf(<< >>), NoTag)>>,
      <<Field(<<"L">>, FuncType, NoTag)>>,
      \* a record declared with no field
      <<Field(<<"Z">>, Ident("Empty"), NoTag),
        Field(<<"Y">>, SliceOf(Ident("Empty")), NoTag)>> }

\* the declarations a unit may hold besides its last record
Preludes ==
    { << >>,
      <<TypeSpec("Celsius", Ident("float64")),
        TypeSpec("Inner", StructOf(<<Field(<<"X">>, Ident("int"), NoTag)>>)),
        TypeSpec("Empty", StructOf(<< >>))>>,
      <<TypeSpec("Celsius", SliceOf(Ident("byte"))),
        TypeSpec("Unknown", ArrayOf("BasicLit", "32", Ident("byte"))),
        TypeSpec("Ints", SliceOf(Ident("int"))),
        TypeSpec("PInt", Star(Ident("int"))),
        TypeSpec("Dict", MapOf(Ident("string"), Ident("int"))),
        TypeSpec("Far", Selector(Ident("pkg"), "T")),
        TypeSpec("Any", Interface(0))>> }

\* the record a unit ends with
Records ==
    {TypeSpec("Thermo", StructOf(<<Field(<<"T">>, x, NoTag)>>)) :
        x \in TypeExprs(MaxDepth)}
    \cup {TypeSpec("Foo", StructOf(fl)) : fl \in SpecialFieldLists}

Files == {<< >>} \cup {p \o <<r>> : p \in Preludes, r \in Records}

-----------------------------------------------------------------------------
(* GetElems as a state machine                                             *)

InitParse ==
    /\ pc = "start"
    /\ file = << >>
    /\ globalIdents = << >>        \* init(): make(map[string]gen.Base)
    /\ globalProcessed = {}        \* init(): make(map[string]struct{})
    /\ out = << >>
    /\ gen_i = 1
    /\ report = << >>

\* GetElems, up to the loop over specs: GetAST, and GetTypeSpecs of each file
DoGetTypeSpecs ==
    /\ pc = "start"
    /\ \E f \in Files :
          /\ file' = f
          /\ globalIdents' = GetTypeSpecs(globalIdents, f)
          /\ pc' = IF Len(f) = 0 THEN "done" ELSE "gen"
    /\ gen_i' = 1
    /\ UNCHANGED <<globalProcessed, out, report>>
    /\ UNCHANGED <<extVars, regVars, wireVars, errVars>>

\* one iteration of the loop "for i := range specs"
DoGenElem ==
    /\ pc = "gen"
    /\ LET r    == GenElem(file[gen_i])
           out1 == IF r.el # NilElem THEN Append(out, r.el) ELSE out
       IN  /\ out' = out1
           /\ globalProcessed' =
                 IF r.processed THEN globalProcessed \cup {file[gen_i].Name}
                 ELSE globalProcessed
           /\ IF gen_i < Len(file)
              THEN /\ gen_i' = gen_i + 1
                   /\ pc' = "gen"
              ELSE /\ gen_i' = 1
                   /\ pc' = IF Len(out1) = 0 THEN "done" ELSE "resolve"
    /\ UNCHANGED <<file, globalIdents, report>>
    /\ UNCHANGED <<extVars, regVars, wireVars, errVars>>

\* one iteration of the loop "for _, o := range out"
DoFindUnresolved ==
    /\ pc = "resolve"
    /\ LET r == findUnresolved(out[gen_i], globalIdents, globalProcessed)
       IN  /\ out' = [out EXCEPT ![gen_i] = r.g]
           /\ report' = Append(report, r.unr)
    /\ IF gen_i < Len(out)
       THEN /\ gen_i' = gen_i + 1
            /\ pc' = "resolve"
       ELSE /\ gen_i' = 1
            /\ pc' = "done"
    /\ UNCHANGED <<file, globalIdents, globalProcessed>>
    /\ UNCHANGED <<extVars, regVars, wireVars, errVars>>

\* GetElems has returned; the process may call it again: the tables stay
DoReturn ==
    /\ pc = "done"
    /\ pc' = "start"
    /\ file' = << >>
    /\ out' = << >>
    /\ report' = << >>
    /\ gen_i' = 1
    /\ UNCHANGED <<globalIdents, globalProcessed>>
    /\ UNCHANGED <<extVars, regVars, wireVars, errVars>>

NextParse ==
    \/ DoGetTypeSpecs
    \/ DoGenElem
    \/ DoFindUnresolved
    \/ DoReturn

-----------------------------------------------------------------------------
(* Codec primitives: the prefix table of the wire format and the Writer's  *)
(* Write<Kind> methods.  Values are kept as the bytes of their fixed-width *)
(* big-endian form: an int64 or uint64 is 8 bytes (two's complement), a    *)
(* map or array size (uint32) 4 bytes, a float its IEEE-754 bits, a        *)
(* complex number the bits of its real and imaginary part, a time 4 bytes  *)
(* of seconds and 4 of nanoseconds; a bool is <<0>> or <<1>>, nil << >>.   *)

\* the lead bytes of the format
Prefix ==
    [mfixmap |-> 128, mfixarray |-> 144, mfixstr |-> 160, mnfixint |-> 224,
     mfalse |-> 194, mtrue |-> 195, minvalid |-> 193,
     mbin8 |-> 196, mbin16 |-> 197, mbin32 |-> 198,
     mfloat32 |-> 202, mfloat64 |-> 203,
     muint8 |-> 204, muint16 |-> 205, muint32 |-> 206, muint64 |-> 207,
     mint8 |-> 208, mint16 |-> 209, mint32 |-> 210, mint64 |-> 211,
     mstr8 |-> 217, mstr16 |-> 218, mstr32 |-> 219,
     marray16 |-> 220, marray32 |-> 221, mmap16 |-> 222, mmap32 |-> 223]

\* the extension type ids of complex64, complex128 and time.Time
Complex64Extension  == 3
Complex128Extension == 4
TimeExtension       == 5

AllAre(bs, v) == \A i \in 1..Len(bs) : bs[i] = v
\* the last w bytes of bs / all but the last w bytes
Low(bs, w)  == SubSeq(bs, Len(bs) - w + 1, Len(bs))
High(bs, w) == SubSeq(bs, 1, Len(bs) - w)
\* the value fits an unsigned / a signed integer of w bytes
FitsUnsigned(v, w) == AllAre(High(v, w), 0)
FitsSigned(v, w) ==
    \/ AllAre(High(v, w), 0) /\ Low(v, w)[1] < 128
    \/ AllAre(High(v, w), 255) /\ Low(v, w)[1] >= 128
\* bs widened to n bytes as an unsigned / as a signed integer
ZeroExt(bs, n) == [i \in 1..(n - Len(bs)) |-> 0] \o bs
SignExt(bs, n) ==
    [i \in 1..(n - Len(bs)) |-> IF bs[1] >= 128 THEN 255 ELSE 0] \o bs
\* the length l in w bytes, big-endian
LenBytes(l, w) ==
    CASE w = 1 -> <<l % 256>>
      [] w = 2 -> <<(l \div 256) % 256, l % 256>>
      [] OTHER -> <<(l \div 16777216) % 256, (l \div 65536) % 256,
                    (l \div 256) % 256, l % 256>>

\* the Writer appends bs to its buffer
push(w, bs) == [w EXCEPT !.buf = w.buf \o bs]

\* WriteMapHeader(sz) with a fixmap for 17 sizes
WriteMapHeaderWideFix(w, n) ==
    IF FitsUnsigned(n, 1) /\ n[4] <= 16 THEN push(w, <<Prefix.mfixmap + n[4]>>)
    ELSE IF FitsUnsigned(n, 2) THEN push(w, <<Prefix.mmap16>> \o Low(n, 2))
    ELSE push(w, <<Prefix.mmap32>> \o n)

\* WriteMapHeader(sz)
WriteMapHeader(w, n) ==
    IF FitsUnsigned(n, 1) /\ n[4] < 16 THEN push(w, <<Prefix.mfixmap + n[4]>>)
    ELSE IF FitsUnsigned(n, 2) THEN push(w, <<Prefix.mmap16>> \o Low(n, 2))
    ELSE push(w, <<Prefix.mmap32>> \o n)

\* WriteArrayHeader(sz)
WriteArrayHeader(w, n) ==
    IF FitsUnsigned(n, 1) /\ n[4] < 16 THEN push(w, <<Prefix.mfixarray + n[4]>>)
    ELSE IF FitsUnsigned(n, 2) THEN push(w, <<Prefix.marray16>> \o Low(n, 2))
    ELSE push(w, <<Prefix.marray32>> \o n)

\* WriteNil()
WriteNil(w) == push(w, <<mnil>>)

\* WriteBool(b)
WriteBool(w, v) == push(w, IF v = <<1>> THEN <<Prefix.mtrue>> ELSE <<Prefix.mfalse>>)

\* WriteInt64(i): the tightest of fixint, int8, int16, int32, int64
WriteInt64(w, v) ==
    IF v[1] < 128
    THEN IF FitsSigned(v, 1) THEN push(w, <<v[8]>>)
         ELSE IF FitsSigned(v, 2) THEN push(w, <<Prefix.mint16>> \o Low(v, 2))
         ELSE IF FitsSigned(v, 4) THEN push(w, <<Prefix.mint32>> \o Low(v, 4))
         ELSE push(w, <<Prefix.mint64>> \o v)
    ELSE IF FitsSigned(v, 1) /\ v[8] >= Prefix.mnfixint THEN push(w, <<v[8]>>)
         ELSE IF FitsSigned(v, 1) THEN push(w, <<Prefix.mint8>> \o Low(v, 1))
         ELSE IF FitsSigned(v, 2) THEN push(w, <<Prefix.mint16>> \o Low(v, 2))
         ELSE IF FitsSigned(v, 4) THEN push(w, <<Prefix.mint32>> \o Low(v, 4))
         ELSE push(w, <<Prefix.mint64>> \o v)

\* WriteUint64(u): the tightest of fixint, uint8, uint16, uint32, uint64
WriteUint64(w, v) ==
    IF FitsUnsigned(v, 1) /\ v[8] < 128 THEN push(w, <<v[8]>>)
    ELSE IF FitsUnsigned(v, 1) THEN push(w, <<Prefix.muint8>> \o Low(v, 1))
    ELSE IF FitsUnsigned(v, 2) THEN push(w, <<Prefix.muint16>> \o Low(v, 2))
    ELSE IF FitsUnsigned(v, 4) THEN push(w, <<Prefix.muint32>> \o Low(v, 4))
    ELSE push(w, <<Prefix.muint64>> \o v)

\* WriteFloat32(f) / WriteFloat64(f): the prefix and the IEEE-754 bits
WriteFloat32(w, v) == push(w, <<Prefix.mfloat32>> \o v)
WriteFloat64(w, v) == push(w, <<Prefix.mfloat64>> \o v)

\* WriteBytes(b): bin8, bin16 or bin32 by the length
WriteBytes(w, v) ==
    LET l == Len(v)
    IN  IF l < 256 THEN push(w, <<Prefix.mbin8>> \o LenBytes(l, 1) \o v)
        ELSE IF l < 65536 THEN push(w, <<Prefix.mbin16>> \o LenBytes(l, 2) \o v)
        ELSE push(w, <<Prefix.mbin32>> \o LenBytes(l, 4) \o v)

\* WriteString(s): fixstr, str8, str16 or str32 by the length
WriteString(w, v) ==
    LET l == Len(v)
    IN  IF l < 32 THEN push(w, <<Prefix.mfixstr + l>> \o v)
        ELSE IF l < 256 THEN push(w, <<Prefix.mstr8>> \o LenBytes(l, 1) \o v)
        ELSE IF l < 65536 THEN push(w, <<Prefix.mstr16>> \o LenBytes(l, 2) \o v)
        ELSE push(w, <<Prefix.mstr32>> \o LenBytes(l, 4) \o v)

\* WriteComplex64(c) / WriteComplex128(c): fixext8 / fixext16 of two floats
WriteComplex64(w, v)  == push(w, <<mfixext8, Complex64Extension>> \o v)
WriteComplex128(w, v) == push(w, <<mfixext16, Complex128Extension>> \o v)

\* WriteTime(t): fixext8 of the seconds and the nanoseconds
WriteTime(w, v) == push(w, <<mfixext8, TimeExtension>> \o v)


-----------------------------------------------------------------------------
(* Codec primitives: the Read<Kind>Bytes functions of the slice API.  Each *)
(* returns [v, rem, err]: the value, the remaining bytes and the error; on *)
(* an error the value is << >> and the remaining bytes are the input.      *)

Read(v, rem) == [v |-> v, rem |-> rem, err |-> NoErr]
Fail(b, err) == [v |-> << >>, rem |-> b, err |-> err]
\* IntOverflow{Value, FailedBitsize} and UintOverflow{Value, FailedBitsize}; a
\* value of more than 32 bits is kept as 0
IntOverflow(value, bits)  == Err("IntOverflow", value, bits)
UintOverflow(value, bits) == Err("UintOverflow", value, bits)

\* a lead byte that is no prefix of the method's kind
badPrefix(lead) ==
    IF lead = Prefix.minvalid THEN InvalidPrefixError(lead) ELSE TypeError(lead)

\* a size in the low 4 bits of prefix fix, or after p16 in 2 bytes, or after
\* p32 in 4 bytes
readSize(b, fix, p16, p32) ==
    IF Len(b) < 1 THEN Fail(b, ErrShortBytes)
    ELSE LET lead == At(b, 0)
         IN  IF lead >= fix /\ lead < fix + 16
             THEN Read(ZeroExt(<<lead - fix>>, 4), From(b, 1))
             ELSE IF lead = p16
             THEN IF Len(b) < 3 THEN Fail(b, ErrShortBytes)
                  ELSE Read(ZeroExt(Slice(b, 1, 3), 4), From(b, 3))
             ELSE IF lead = p32
             THEN IF Len(b) < 5 THEN Fail(b, ErrShortBytes)
                  ELSE Read(Slice(b, 1, 5), From(b, 5))
             ELSE Fail(b, badPrefix(lead))

ReadMapHeaderBytes(b) ==
    readSize(b, Prefix.mfixmap, Prefix.mmap16, Prefix.mmap32)
ReadArrayHeaderBytes(b) ==
    readSize(b, Prefix.mfixarray, Prefix.marray16, Prefix.marray32)

ReadNilBytes(b) ==
    IF Len(b) < 1 THEN Fail(b, ErrShortBytes)
    ELSE IF At(b, 0) = mnil THEN Read(<< >>, From(b, 1))
    ELSE Fail(b, badPrefix(At(b, 0)))

ReadBoolBytes(b) ==
    IF Len(b) < 1 THEN Fail(b, ErrShortBytes)
    ELSE IF At(b, 0) = Prefix.mtrue THEN Read(<<1>>, From(b, 1))
    ELSE IF At(b, 0) = Prefix.mfalse THEN Read(<<0>>, From(b, 1))
    ELSE Fail(b, badPrefix(At(b, 0)))

\* the w bytes after the lead byte
fixed(b, w) == Slice(b, 1, 1 + w)
\* the width in bytes of the integer after prefix p0 + k (k = 0..3)
widthOf(lead, p0) ==
    CASE lead = p0 -> 1 [] lead = p0 + 1 -> 2 [] lead = p0 + 2 -> 4 [] OTHER -> 8

\* ReadInt64Bytes(b): any integer encoding of a value an int64 holds
ReadInt64Bytes(b) ==
    IF Len(b) < 1 THEN Fail(b, ErrShortBytes)
    ELSE LET lead == At(b, 0)
         IN  IF lead < 128 \/ lead >= Prefix.mnfixint
             THEN Read(SignExt(<<lead>>, 8), From(b, 1))
             ELSE IF lead >= Prefix.mint8 /\ lead <= Prefix.mint64
             THEN LET w == widthOf(lead, Prefix.mint8)
                  IN  IF Len(b) < 1 + w THEN Fail(b, ErrShortBytes)
                      ELSE Read(SignExt(fixed(b, w), 8), From(b, 1 + w))
             ELSE IF lead >= Prefix.muint8 /\ lead <= Prefix.muint64
             THEN LET w == widthOf(lead, Prefix.muint8)
                  IN  IF Len(b) < 1 + w THEN Fail(b, ErrShortBytes)
                      ELSE IF w = 8 /\ At(b, 1) >= 128 THEN Fail(b, IntOverflow(0, 64))
                      ELSE Read(ZeroExt(fixed(b, w), 8), From(b, 1 + w))
             ELSE Fail(b, badPrefix(lead))

\* ReadUint64Bytes(b): any integer encoding of a value a uint64 holds
ReadUint64Bytes(b) ==
    IF Len(b) < 1 THEN Fail(b, ErrShortBytes)
    ELSE LET lead == At(b, 0)
         IN  IF lead < 128 THEN Read(ZeroExt(<<lead>>, 8), From(b, 1))
             ELSE IF lead >= Prefix.mnfixint THEN Fail(b, UintOverflow(0, 64))
             ELSE IF lead >= Prefix.muint8 /\ lead <= Prefix.muint64
             THEN LET w == widthOf(lead, Prefix.muint8)
                  IN  IF Len(b) < 1 + w THEN Fail(b, ErrShortBytes)
                      ELSE Read(ZeroExt(fixed(b, w), 8), From(b, 1 + w))
             ELSE IF lead >= Prefix.mint8 /\ lead <= Prefix.mint64
             THEN LET w == widthOf(lead, Prefix.mint8)
                  IN  IF Len(b) < 1 + w THEN Fail(b, ErrShortBytes)
                      ELSE IF At(b, 1) >= 128 THEN Fail(b, UintOverflow(0, 64))
                      ELSE Read(ZeroExt(fixed(b, w), 8), From(b, 1 + w))
             ELSE Fail(b, badPrefix(lead))

\* a value of w bytes after the prefix p
readFixed(b, p, w) ==
    IF Len(b) < 1 THEN Fail(b, ErrShortBytes)
    ELSE IF At(b, 0) # p THEN Fail(b, badPrefix(At(b, 0)))
    ELSE IF Len(b) < 1 + w THEN Fail(b, ErrShortBytes)
    ELSE Read(fixed(b, w), From(b, 1 + w))

ReadFloat32Bytes(b) == readFixed(b, Prefix.mfloat32, 4)
ReadFloat64Bytes(b) == readFixed(b, Prefix.mfloat64, 8)

\* l bytes after a header of hl bytes
readBody(b, hl, l) ==
    IF Len(b) - hl < l THEN Fail(b, ErrShortBytes)
    ELSE Read(Slice(b, hl, hl + l), From(b, hl + l))

\* bytes whose length follows the prefix p8 in 1 byte, the next prefix in 2
\* bytes, the one after it in 4 bytes
readLong(b, p8) ==
    LET lead == At(b, 0)
    IN  IF lead = p8
        THEN IF Len(b) < 2 THEN Fail(b, ErrShortBytes)
             ELSE readBody(b, 2, At(b, 1))
        ELSE IF lead = p8 + 1
        THEN IF Len(b) < 3 THEN Fail(b, ErrShortBytes)
             ELSE readBody(b, 3, Uint16(b, 1))
        ELSE IF lead = p8 + 2
        THEN IF Len(b) < 5 THEN Fail(b, ErrShortBytes)
             ELSE readBody(b, 5, Uint32(b, 1))
        ELSE Fail(b, badPrefix(lead))

\* ReadBytesBytes(b, scratch)
ReadBytesBytes(b) ==
    IF Len(b) < 1 THEN Fail(b, ErrShortBytes) ELSE readLong(b, Prefix.mbin8)

\* ReadStringBytes(b)
ReadStringBytes(b) ==
    IF Len(b) < 1 THEN Fail(b, ErrShortBytes)
    ELSE IF At(b, 0) >= Prefix.mfixstr /\ At(b, 0) < Prefix.mfixstr + 32
    THEN readBody(b, 1, At(b, 0) - Prefix.mfixstr)
    ELSE readLong(b, Prefix.mstr8)

\* a fixext of prefix p and w bytes whose type id is typ
readFixExt(b, p, typ, w) ==
    IF Len(b) < 2 + w THEN Fail(b, ErrShortBytes)
    ELSE IF At(b, 0) # p THEN Fail(b, badPrefix(At(b, 0)))
    ELSE IF Int8(At(b, 1)) # typ THEN Fail(b, errExt(Int8(At(b, 1)), typ))
    ELSE Read(Slice(b, 2, 2 + w), From(b, 2 + w))

ReadComplex64Bytes(b)  == readFixExt(b, mfixext8, Complex64Extension, 8)
ReadComplex128Bytes(b) == readFixExt(b, mfixext16, Complex128Extension, 16)
ReadTimeBytes(b)       == readFixExt(b, mfixext8, TimeExtension, 8)

-----------------------------------------------------------------------------
(* Codec primitives: Skip.  getSize gives, for the object at the head of   *)
(* b, the bytes of the object itself (for a map or an array: its header)   *)
(* and the number of objects nested in it; Skip pops one pending object at *)
(* a time and pushes its element count, a map counting twice its length.   *)

\* a size that counts no nested object
SizedFlat(sz, kids) == [sz |-> sz, kids |-> 0, err |-> NoErr]
Sized(sz, kids) == [sz |-> sz, kids |-> kids, err |-> NoErr]
Unsized(err)    == [sz |-> 0, kids |-> 0, err |-> err]

\* a header of hl bytes whose last bytes are a length of w bytes, the body
\* being as long (body) or holding that many objects times per
sizeAfter(b, hl, w, body, per) ==
    IF Len(b) < hl THEN Unsized(ErrShortBytes)
    ELSE LET n == CASE w = 1 -> At(b, 1)
                    [] w = 2 -> Uint16(b, 1)
                    [] OTHER -> Uint32(b, 1)
         IN  IF body THEN Sized(hl + n, 0) ELSE Sized(hl, per * n)

getSize(b) ==
    IF Len(b) < 1 THEN Unsized(ErrShortBytes)
    ELSE LET lead == At(b, 0)
         IN  CASE lead < Prefix.mfixmap     -> Sized(1, 0)
               [] lead >= Prefix.mfixmap /\ lead < Prefix.mfixarray
                                            -> Sized(1, 2 * (lead - Prefix.mfixmap))
               [] lead >= Prefix.mfixarray /\ lead < Prefix.mfixstr
                                            -> Sized(1, lead - Prefix.mfixarray)
               [] lead >= Prefix.mfixstr /\ lead < mnil
                                            -> Sized(1 + lead - Prefix.mfixstr, 0)
               [] lead >= Prefix.mnfixint   -> Sized(1, 0)
               [] lead \in {mnil, Prefix.mfalse, Prefix.mtrue} -> Sized(1, 0)
               [] lead = Prefix.minvalid    -> Unsized(InvalidPrefixError(lead))
               [] lead = Prefix.mbin8       -> sizeAfter(b, 2, 1, TRUE, 0)
               [] lead = Prefix.mbin16      -> sizeAfter(b, 3, 2, TRUE, 0)
               [] lead = Prefix.mbin32      -> sizeAfter(b, 5, 4, TRUE, 0)
               [] lead = mext8              -> sizeAfter(b, 3, 1, TRUE, 0)
               [] lead = mext16             -> sizeAfter(b, 4, 2, TRUE, 0)
               [] lead = mext32             -> sizeAfter(b, 6, 4, TRUE, 0)
               [] lead = Prefix.mfloat32    -> Sized(5, 0)
               [] lead = Prefix.mfloat64    -> Sized(9, 0)
               [] lead \in {Prefix.muint8, Prefix.mint8}   -> Sized(2, 0)
               [] lead \in {Prefix.muint16, Prefix.mint16} -> Sized(3, 0)
               [] lead \in {Prefix.muint32, Prefix.mint32} -> Sized(5, 0)
               [] lead \in {Prefix.muint64, Prefix.mint64} -> Sized(9, 0)
               [] lead = mfixext1           -> Sized(3, 0)
               [] lead = mfixext2           -> Sized(4, 0)
               [] lead = mfixext4           -> Sized(6, 0)
               [] lead = mfixext8           -> Sized(10, 0)
               [] lead = mfixext16          -> Sized(18, 0)
               [] lead = Prefix.mstr8       -> sizeAfter(b, 2, 1, TRUE, 0)
               [] lead = Prefix.mstr16      -> sizeAfter(b, 3, 2, TRUE, 0)
               [] lead = Prefix.mstr32      -> sizeAfter(b, 5, 4, TRUE, 0)
               [] lead = Prefix.marray16    -> sizeAfter(b, 3, 2, FALSE, 1)
               [] lead = Prefix.marray32    -> sizeAfter(b, 5, 4, FALSE, 1)
               [] lead = Prefix.mmap16      -> sizeAfter(b, 3, 2, FALSE, 2)
               [] OTHER                     -> sizeAfter(b, 5, 4, FALSE, 2)

\* the loop of Skip: pending objects are still to pass
RECURSIVE skipLoop(_, _)
skipLoop(b, pending) ==
    IF pending = 0 THEN [rem |-> b, err |-> NoErr]
    ELSE LET s == getSize(b)
         IN  IF s.err # NoErr THEN [rem |-> b, err |-> s.err]
             ELSE IF Len(b) < s.sz THEN [rem |-> b, err |-> ErrShortBytes]
             ELSE skipLoop(From(b, s.sz), pending - 1 + s.kids)

\* Skip(b): the bytes after the first object of b, or b and the error
SkipObject(b) ==
    LET r == skipLoop(b, 1)
    IN  IF r.err # NoErr THEN [rem |-> b, err |-> r.err] ELSE r

-----------------------------------------------------------------------------
(* Codec primitives: the values written, one Write<Kind> call each.  An    *)
(* item is [k, v, t]: the kind, the value's bytes and, of an extension,    *)
(* its type id.                                                            *)

\* at most so many Write<Kind> calls before the flush
MaxItems == 3

Item(k, v) == [k |-> k, v |-> v, t |-> 0]
U32(n) == LenBytes(n, 4)
\* the int64 n, for n of 32 bits
I64(n) ==
    IF n >= 0 THEN ZeroExt(U32(n), 8)
    ELSE LET m == U32((n + 2147483647) + 1)
         IN  SignExt(<<m[1] + 128, m[2], m[3], m[4]>>, 8)

Sizes == {0, 1, 5, 15, 16, 17, 100, 49082, 65535, 65536}
Int64s ==
    {I64(n) : n \in {-2147483647, -40921, -32769, -32768, -129, -128, -33, -32,
                     -30, -5, -1, 0, 1, 127, 128, 150, 255, 300, 32767, 32768,
                     40921, 34908219, 2147483647}}
      \cup {<<0, 0, 0, 0, 128, 0, 0, 0>>, <<255, 255, 255, 255, 127, 255, 255, 255>>,
            <<128, 0, 0, 0, 0, 0, 0, 0>>, <<127, 255, 255, 255, 255, 255, 255, 255>>}
Uint64s ==
    {ZeroExt(U32(n), 8) : n \in {0, 1, 127, 128, 255, 256, 65535, 65536, 2147483647}}
      \cup {<<0, 0, 0, 0, 255, 255, 255, 255>>, <<0, 0, 0, 1, 0, 0, 0, 0>>,
            <<255, 255, 255, 255, 255, 255, 255, 255>>}
Float32s == {<<0, 0, 0, 0>>, <<64, 73, 15, 208>>, <<255, 192, 0, 1>>}
Float64s == {<<0, 0, 0, 0, 0, 0, 0, 0>>, <<64, 9, 33, 249, 240, 27, 134, 110>>,
             <<127, 240, 0, 0, 0, 0, 0, 0>>}
ByteLens == {0, 1, 31, 32, 47, 255, 256, 65535, 65536}
Times == {<<0, 0, 0, 0, 0, 0, 0, 0>>, <<84, 84, 200, 17, 59, 154, 201, 255>>}
ExtItems ==
    {[k |-> "ext", v |-> PayloadOf(l), t |-> t] :
        l \in {0, 1, 3, 11, 16, 300}, t \in {55, -1}}

Items ==
    {Item("map", U32(n)) : n \in Sizes}
      \cup {Item("array", U32(n)) : n \in Sizes}
      \cup {Item("nil", << >>), Item("bool", <<0>>), Item("bool", <<1>>)}
      \cup {Item("int64", v) : v \in Int64s}
      \cup {Item("uint64", v) : v \in Uint64s}
      \cup {Item("float32", v) : v \in Float32s}
      \cup {Item("float64", v) : v \in Float64s}
      \cup {Item("bin", Fill(l, 170)) : l \in ByteLens}
      \cup {Item("str", Fill(l, 170)) : l \in ByteLens}
      \cup {Item("complex64", v) : v \in Float64s}
      \cup {Item("complex128", v \o v) : v \in Float64s}
      \cup {Item("time", v) : v \in Times}
      \cup ExtItems

\* the values written one after another into one stream
SmallItems ==
    {Item("map", U32(1)), Item("array", U32(0)), Item("array", U32(1)),
     Item("array", U32(2)), Item("nil", << >>), Item("int64", I64(-5)),
     Item("str", Fill(1, 170)), Item("float32", <<64, 73, 15, 208>>),
     Item("time", <<84, 84, 200, 17, 59, 154, 201, 255>>),
     [k |-> "ext", v |-> PayloadOf(3), t |-> 55]}

\* the kinds that have a Read<Kind>Bytes
ReadKinds == {"map", "array", "nil", "bool", "int64", "uint64", "float32",
              "float64", "bin", "str", "complex64", "complex128", "time"}

\* the Write<Kind> call of an item
WriteKind(w, it) ==
    CASE it.k = "map"        -> WriteMapHeader(w, it.v)
      [] it.k = "array"      -> WriteArrayHeader(w, it.v)
      [] it.k = "nil"        -> WriteNil(w)
      [] it.k = "bool"       -> WriteBool(w, it.v)
      [] it.k = "int64"      -> WriteInt64(w, it.v)
      [] it.k = "uint64"     -> WriteUint64(w, it.v)
      [] it.k = "float32"    -> WriteFloat32(w, it.v)
      [] it.k = "float64"    -> WriteFloat64(w, it.v)
      [] it.k = "bin"        -> WriteBytes(w, it.v)
      [] it.k = "str"        -> WriteString(w, it.v)
      [] it.k = "complex64"  -> WriteComplex64(w, it.v)
      [] it.k = "complex128" -> WriteComplex128(w, it.v)
      [] it.k = "time"       -> WriteTime(w, it.v)
      [] OTHER -> WriteExtension(w, RawExtension(it.t, it.v), "no", "no", 0).mw

\* the Read<Kind>Bytes call of a kind
ReadKindBytes(k, b) ==
    CASE k = "map"        -> ReadMapHeaderBytes(b)
      [] k = "array"      -> ReadArrayHeaderBytes(b)
      [] k = "nil"        -> ReadNilBytes(b)
      [] k = "bool"       -> ReadBoolBytes(b)
      [] k = "int64"      -> ReadInt64Bytes(b)
      [] k = "uint64"     -> ReadUint64Bytes(b)
      [] k = "float32"    -> ReadFloat32Bytes(b)
      [] k = "float64"    -> ReadFloat64Bytes(b)
      [] k = "bin"        -> ReadBytesBytes(b)
      [] k = "str"        -> ReadStringBytes(b)
      [] k = "complex64"  -> ReadComplex64Bytes(b)
      [] k = "complex128" -> ReadComplex128Bytes(b)
      [] OTHER            -> ReadTimeBytes(b)

-----------------------------------------------------------------------------
(* Codec primitives: the state machine.  A Writer gets up to MaxItems      *)
(* Write<Kind> calls and a Flush; the flushed bytes are then read by one   *)
(* Read<Kind>Bytes call or passed by successive Skip calls.                *)

NoGot == [kind |-> "none", v |-> << >>, rem |-> << >>, err |-> NoErr]

InitWire ==
    /\ wpc = "writing"
    /\ items = << >>
    /\ ww = EmptyWriter
    /\ cuts = << >>
    /\ unskipped = << >>
    /\ readres = NoGot
    /\ nskip = 0
    /\ skiperr = NoErr

\* one Write<Kind> call
DoWriteKind ==
    /\ wpc = "writing"
    /\ Len(items) < MaxItems
    /\ \A i \in 1..Len(items) : items[i] \in SmallItems
    /\ \E it \in (IF items = << >> THEN Items ELSE SmallItems) :
          LET w == WriteKind(ww, it)
          IN  /\ ww' = w
              /\ items' = Append(items, it)
              /\ cuts' = Append(cuts, Len(w.sink) + Len(w.buf))
    /\ UNCHANGED <<wpc, unskipped, readres, nskip, skiperr>>
    /\ UNCHANGED <<extVars, regVars, parseVars, errVars>>

\* Flush(): the stream is what the sink holds
DoFlushWire ==
    /\ wpc = "writing"
    /\ items # << >>
    /\ ww' = Flush(ww)
    /\ unskipped' = ww'.sink
    /\ wpc' = "flushed"
    /\ UNCHANGED <<items, cuts, readres, nskip, skiperr>>
    /\ UNCHANGED <<extVars, regVars, parseVars, errVars>>

\* one Read<Kind>Bytes call on the stream: of any kind when one value was
\* written, of the first value's kind otherwise
DoReadKindBytes ==
    /\ wpc = "flushed"
    /\ \E k \in ReadKinds :
          /\ Len(items) > 1 => k = items[1].k
          /\ LET r == ReadKindBytes(k, ww.sink)
             IN  readres' = [kind |-> k, v |-> r.v, rem |-> r.rem, err |-> r.err]
    /\ wpc' = "read"
    /\ UNCHANGED <<items, ww, cuts, unskipped, nskip, skiperr>>
    /\ UNCHANGED <<extVars, regVars, parseVars, errVars>>

\* one Skip call on what the Skip calls before it left
DoSkip ==
    /\ wpc \in {"flushed", "skipping"}
    /\ skiperr = NoErr
    /\ unskipped # << >>
    /\ LET r == SkipObject(unskipped)
       IN  /\ unskipped' = r.rem
           /\ skiperr' = r.err
           /\ nskip' = IF r.err = NoErr THEN nskip + 1 ELSE nskip
    /\ wpc' = "skipping"
    /\ UNCHANGED <<items, ww, cuts, readres>>
    /\ UNCHANGED <<extVars, regVars, parseVars, errVars>>

\* a new Writer and a new stream
ResetWire ==
    /\ wpc \in {"read", "skipping"}
    /\ wpc' = "writing"
    /\ items' = << >>
    /\ ww' = EmptyWriter
    /\ cuts' = << >>
    /\ unskipped' = << >>
    /\ readres' = NoGot
    /\ nskip' = 0
    /\ skiperr' = NoErr
    /\ UNCHANGED <<extVars, regVars, parseVars, errVars>>

NextWire ==
    \/ DoWriteKind
    \/ DoFlushWire
    \/ DoReadKindBytes
    \/ DoSkip
    \/ ResetWire

-----------------------------------------------------------------------------
(* Errors: the Resumable method of each error type of the package          *)

ErrFatal == Err("fatal", 0, 0)
ArrayError(wanted, g) == Err("ArrayError", g, wanted)
ExtensionTypeError(g, want) == errExt(g, want)
\* TypeError{Method, Encoded}
TypeErrorOf(method, encoded) == Err("TypeError", encoded, method)

\* Resumable of an error type that tells no kind from another
ResumableAlways(e) == TRUE

Resumable(e) ==
    CASE e.kind = "ErrShortBytes"      -> TRUE
      [] e.kind = "fatal"              -> FALSE
      [] e.kind = "ArrayError"         -> TRUE
      [] e.kind = "IntOverflow"        -> TRUE
      [] e.kind = "UintOverflow"       -> TRUE
      [] e.kind = "TypeError"          -> TRUE
      [] e.kind = "InvalidPrefixError" -> FALSE
      [] e.kind = "ExtensionTypeError" -> TRUE

\* the wire types a TypeError names, array sizes, integers, bit sizes, bytes
WireTypes == {"str", "bin", "map", "array", "float64", "float32", "bool",
              "int", "uint", "nil", "ext"}
ErrSizes == {0, 1, 2, 65536}
ErrValues == {-129, 128, 256, 70000}
Bitsizes == {8, 16, 32, 64}
ErrBytes == {0, 193, 255}

Errors ==
    {ErrShortBytes, ErrFatal}
      \cup {ArrayError(w, g) : w \in ErrSizes, g \in ErrSizes}
      \cup {IntOverflow(v, s) : v \in ErrValues, s \in Bitsizes}
      \cup {UintOverflow(v, s) : v \in ErrValues, s \in Bitsizes}
      \cup {TypeErrorOf(m, c) : m \in WireTypes, c \in WireTypes}
      \cup {InvalidPrefixError(b) : b \in ErrBytes}
      \cup {ExtensionTypeError(g, w) : g \in {-128, 0, 5, 127}, w \in {-128, 0, 5, 127}}

InitErr == errs = [e |-> NoErr, resumable |-> FALSE]

\* an error of the package is returned and asked whether it is resumable
RaiseError ==
    /\ \E e \in Errors : errs' = [e |-> e, resumable |-> Resumable(e)]
    /\ UNCHANGED <<extVars, regVars, parseVars, wireVars>>

NextErr == RaiseError

-----------------------------------------------------------------------------------------------------------------------------------------------------
(* Specifications                                                          *)

Init == InitExt /\ InitReg /\ InitConc /\ InitParse /\ InitWire /\ InitErr

\* the extension codec
SpecExt == Init /\ [][NextExt]_vars
\* the extension registry
SpecReg == Init /\ [][NextReg]_vars
\* the code generator's ingester and resolver
SpecParse == Init /\ [][NextParse]_vars
\* the codec primitives
SpecWire == Init /\ [][NextWire]_vars
\* the errors
SpecErr == Init /\ [][NextErr]_vars
\* the registry under two concurrent calls
SpecConc == Init /\ [][NextConc]_vars

Next == NextExt \/ NextReg \/ NextConc \/ NextParse \/ NextWire \/ NextErr
Spec == Init /\ [][Next]_vars

-----------------------------------------------------------------------------
(* Properties of the extension codec                                       *)

FixLens == {1, 2, 4, 8, 16}
\* the fixext prefix of a payload length in FixLens
FixPrefix(l) ==
    CASE l = 1 -> mfixext1 [] l = 2 -> mfixext2 [] l = 4 -> mfixext4
      [] l = 8 -> mfixext8 [] OTHER -> mfixext16
\* the header the format's width boundaries give a length outside FixLens
WidthHeader(l, t) ==
    IF l < 256 THEN <<mext8, l, Byte(t)>>
    ELSE IF l < 65536 THEN <<mext16, l \div 256, l % 256, Byte(t)>>
    ELSE <<mext32, 0, (l \div 65536) % 256, (l \div 256) % 256, l % 256, Byte(t)>>

\* AppendExtension has returned / WriteExtension has returned without error
Appended == phase = "encoded" /\ origin.op = "AppendExtension"
Written  == phase = "written" /\ origin.op = "WriteExtension"
                /\ origin.err = NoErr
\* all the Writer has put out: what the sink got and what is still buffered
Stream == mw.sink \o mw.buf

\* C1: an extension appended to a nil slice by AppendExtension and read by
\* ReadExtensionBytes into a RawExtension of the same type comes back with
\* no error, nothing left over and the same payload bytes.
C1_RoundTrip ==
    (/\ phase = "decoded"
     /\ origin.op = "AppendExtension"
     /\ origin.pre = << >>
     /\ last.op = "ReadExtensionBytes"
     /\ ~last.want.failing
     /\ last.want.Type = origin.e.Type)
    => /\ last.res.err = NoErr
       /\ last.res.rem = << >>
       /\ last.res.e.Data = origin.e.Data

\* C2: for a payload of 1, 2, 4, 8 or 16 bytes AppendExtension and
\* WriteExtension add the fixext prefix, the type id and the payload, 2+N
\* bytes, and nothing else.
C2_FixextIsTwoPlusN ==
    LET l == Len(origin.e.Data)
        enc == <<FixPrefix(l), Byte(origin.e.Type)>> \o origin.e.Data
    IN  /\ (Appended /\ l \in FixLens) => wire = enc
        /\ (Written /\ l \in FixLens) => Stream = origin.pre \o enc

\* C3: for a payload length outside 1, 2, 4, 8, 16 the header is chosen by
\* the width boundaries: below 2^8 ext8, below 2^16 ext16, else ext32, and
\* length 0 is ext8, 0, type id.
C3_HeaderByWidth ==
    LET l == Len(origin.e.Data)
        enc == WidthHeader(l, origin.e.Type) \o origin.e.Data
    IN  /\ (Appended /\ l \notin FixLens) => wire = enc
        /\ (Written /\ l \notin FixLens) => Stream = origin.pre \o enc

\* C4: on a well-formed extension object whose type id is not the one of
\* the extension passed in, both decoders return ExtensionTypeError{Got: the
\* wire type, Want: the extension's type} and do not call UnmarshalBinary.
C4_TypeMismatchIsReported ==
    (/\ phase = "decoded"
     /\ origin.op = "receive"
     /\ origin.kind \in ExtKinds
     /\ origin.whole
     /\ origin.e.Type # last.want.Type)
    => /\ last.res.err = errExt(origin.e.Type, last.want.Type)
       /\ last.res.calls = << >>

\* C5: when ReadExtensionBytes returns an error, the slice it returns is
\* its input.
C5_ErrorReturnsInput ==
    (/\ phase = "decoded"
     /\ last.op = "ReadExtensionBytes"
     /\ last.res.err # NoErr)
    => last.res.rem = wire

-----------------------------------------------------------------------------
(* Properties of the extension registry                                    *)

\* the index of the first call made with id typ
FirstCall(typ) ==
    CHOOSE i \in 1..Len(regCalls) :
        /\ regCalls[i].typ = typ
        /\ \A j \in 1..(i - 1) : regCalls[j].typ # typ
CalledIds == {regCalls[i].typ : i \in 1..Len(regCalls)}

\* C6: after any sequence of RegisterExtension calls the registry has no
\* entry for 3, 4 and 5 and holds, for every other id called, the factory of
\* the first call with it; a call panics exactly when its id is reserved or
\* was registered before.
C6_RegistryKeepsFirst ==
    /\ (DOMAIN extensionReg) \cap ReservedTypes = {}
    /\ DOMAIN extensionReg = CalledIds \ ReservedTypes
    /\ \A id \in DOMAIN extensionReg :
          extensionReg[id] = regCalls[FirstCall(id)].f
    /\ \A i \in 1..Len(regCalls) :
          (regCalls[i].panic # "none") <=>
             \/ regCalls[i].typ \in ReservedTypes
             \/ \E j \in 1..(i - 1) : regCalls[j].typ = regCalls[i].typ

\* a reserved id was tried, and an id was registered and then tried again
\* with another factory
C6_Witness ==
    /\ \E i \in 1..Len(regCalls) : regCalls[i].typ \in ReservedTypes
    /\ \E i, j \in 1..Len(regCalls) :
          /\ i < j
          /\ regCalls[i].typ = regCalls[j].typ
          /\ regCalls[i].typ \notin ReservedTypes
          /\ regCalls[i].f # regCalls[j].f
          /\ regCalls[j].panic # "none"

-----------------------------------------------------------------------------
(* Properties of the ingester and the resolver                             *)

\* the elements directly below g
Children(g) ==
    CASE g.t \in {"Ptr", "Slice", "Array", "Map"} -> g.sub
      [] g.t = "Struct" -> [i \in 1..Len(g.Fields) |-> g.Fields[i].FieldElem]
      [] OTHER -> << >>

\* the paths (child indices from the root) to the nodes of g; with
\* intoArray = FALSE only those the resolver walks: through Ptr.Value,
\* Slice.Els, Map.Value and the fields of a Struct
RECURSIVE PathsOf(_, _)
PathsOf(g, intoArray) ==
    {<< >>} \cup
    IF g.t = "Array" /\ ~intoArray THEN {}
    ELSE UNION {{<<i>> \o p : p \in PathsOf(Children(g)[i], intoArray)} :
                    i \in 1..Len(Children(g))}

RECURSIVE NodeAt(_, _)
NodeAt(g, p) ==
    IF Len(p) = 0 THEN g ELSE NodeAt(Children(g)[p[1]], Tail(p))

\* the nodes of g
NodesOf(g) == {NodeAt(g, p) : p \in PathsOf(g, TRUE)}
Range(f) == {f[i] : i \in DOMAIN f}
IsIdent(b) == b.t = "Base" /\ b.Value = "IDENT"

\* C7: a Base{IDENT, Ident=N} node the resolver reaches, with N not in
\* globalProcessed and globalIdents[N] = K, K not IDENT, is after the call
\* Base{K, Ident=N, Convert=true}, and N is not in the returned list.
C7_AliasIsLowered ==
    [][(pc = "resolve" /\ report' # report) =>
        \A p \in PathsOf(out[gen_i], FALSE) :
            LET b == NodeAt(out[gen_i], p)
            IN  (/\ IsIdent(b)
                 /\ b.Ident \notin globalProcessed
                 /\ b.Ident \in DOMAIN globalIdents
                 /\ globalIdents[b.Ident] # "IDENT")
                => /\ NodeAt(out'[gen_i], p) =
                        BaseElem(globalIdents[b.Ident], b.Ident, TRUE, "", "")
                   /\ b.Ident \notin Range(report'[gen_i])
      ]_vars

\* resolution is over and left an alias lowered to its base below a pointer,
\* slice or map of a record's field
C7_Witness ==
    /\ pc = "done"
    /\ \E i \in 1..Len(out) : \E p \in PathsOf(out[i], FALSE) :
          /\ Len(p) >= 3
          /\ NodeAt(out[i], p) = BaseElem("Float64", "Celsius", TRUE, "", "")

\* C8: after findUnresolved every Base node with BaseName = IDENT left in
\* the tree has its Ident in the unresolved identifiers returned for that
\* tree (stated for the names the generator has not processed).
C8_IdentLeftIsReported ==
    pc = "done" =>
        \A i \in 1..Len(out) : \A b \in NodesOf(out[i]) :
            (IsIdent(b) /\ b.Ident \notin globalProcessed)
            => b.Ident \in Range(report[i])

\* C9 as stated: after resolution no tree holds a Base node with BaseName =
\* IDENT whose Ident is in globalProcessed and whose Convert is false.
C9_NoProcessedIdentUnconverted ==
    pc = "done" =>
        \A i \in 1..Len(out) : \A b \in NodesOf(out[i]) :
            ~(IsIdent(b) /\ b.Ident \in globalProcessed /\ ~b.Convert)

\* C9 amended: after resolution every Base node with BaseName = IDENT whose
\* Ident is in globalProcessed is left as elaborated, Convert false, and its
\* Ident is not in the unresolved identifiers returned for its tree.
C9_ProcessedIdentIsLeft ==
    pc = "done" =>
        \A i \in 1..Len(out) : \A b \in NodesOf(out[i]) :
            (IsIdent(b) /\ b.Ident \in globalProcessed)
            => /\ ~b.Convert
               /\ b.Ident \notin Range(report[i])

\* resolution is over and a field refers to a processed record
C9_Witness ==
    /\ pc = "done"
    /\ \E i \in 1..Len(out) : \E b \in NodesOf(out[i]) :
          IsIdent(b) /\ b.Ident \in globalProcessed

\* C10: no element tree holds a Ptr whose Value is a Ptr.
C10_NoPtrToPtr ==
    \A i \in 1..Len(out) : \A g \in NodesOf(out[i]) :
        g.t = "Ptr" => g.sub[1].t # "Ptr"

-----------------------------------------------------------------------------
(* Properties of parseFieldList and GetTypeSpecs                           *)

\* the names a field declaration gives: its Names, or for an embedded field
\* the name embedded() derives from its type
FieldNames(f) ==
    IF Len(f.Names) = 0 THEN {embedded(f.Type)} ELSE Range(f.Names)

\* the Struct elements GetElems holds for the record named nm
TreesOf(nm) ==
    {out[i].sub[1] : i \in {j \in 1..Len(out) : out[j].sub[1].Name = nm}}

\* the records of the unit, once elaborated
Elaborated ==
    IF pc \in {"resolve", "done"}
    THEN {i \in 1..Len(file) : file[i].Type.k = "Struct"}
    ELSE {}

\* C11: a field declaration whose msg tag name is "-" (one name, embedded,
\* several names, with or without further tag pieces) gives no StructField
\* for any of its names.
C11_DashOmitsField ==
    \A i \in Elaborated : \A k \in 1..Len(file[i].Type.fields) :
        LET f == file[i].Type.fields[k]
        IN  (f.Tag.present /\ f.Tag.name = "-")
            => \A s \in TreesOf(file[i].Name) : \A j \in 1..Len(s.Fields) :
                   s.Fields[j].FieldName \notin FieldNames(f)

\* C12: every StructField has a FieldTag that is not empty and is the name
\* part of its declaration's msg tag when that part is not empty, and its
\* FieldName otherwise.
C12_FieldTagIsTagOrName ==
    \A i \in Elaborated :
        \A s \in TreesOf(file[i].Name) : \A j \in 1..Len(s.Fields) :
            LET sf == s.Fields[j]
                fl == file[i].Type.fields
            IN  /\ sf.FieldTag # ""
                /\ \E k \in 1..Len(fl) :
                      /\ sf.FieldName \in FieldNames(fl[k])
                      /\ sf.FieldTag =
                            IF fl[k].Tag.present /\ fl[k].Tag.name # ""
                            THEN fl[k].Tag.name ELSE sf.FieldName

\* C13: pass 1 records for every type declaration of the unit: a record as
\* IDENT, an alias of a known base as that base, []byte as Bytes, every other
\* slice, every fixed-size array ([N]byte too), every pointer and every map
\* as IDENT.
C13_Pass1Records ==
    pc # "start" =>
        \A i \in 1..Len(file) :
            LET ty == file[i].Type
                nm == file[i].Name
            IN  /\ ty.k \in {"Struct", "Star", "Map"}
                      => nm \in DOMAIN globalIdents
                         /\ globalIdents[nm] = "IDENT"
                /\ ty.k = "Ident"
                      => nm \in DOMAIN globalIdents
                         /\ globalIdents[nm] = pullIdent(ty.name)
                /\ ty.k = "Array"
                      => nm \in DOMAIN globalIdents
                         /\ globalIdents[nm] =
                               IF ty.lenk = "nil" /\ ty.sub[1] = Ident("byte")
                               THEN "Bytes" ELSE "IDENT"

-----------------------------------------------------------------------------
(* GetElems as a function of the two tables and the unit                   *)

\* the loop "for i := range specs": the elements GenElem returns, nil dropped
RECURSIVE GenElems(_)
GenElems(specs) ==
    IF Len(specs) = 0 THEN << >>
    ELSE LET h == GenElems(SubSeq(specs, 1, Len(specs) - 1))
             r == GenElem(specs[Len(specs)])
         IN  IF r.el # NilElem THEN Append(h, r.el) ELSE h

\* the names that loop adds to globalProcessed
ProcessedBy(specs) ==
    {specs[i].Name : i \in {j \in 1..Len(specs) : GenElem(specs[j]).processed}}

\* GetElems(filename) called with the tables holding idents and processed:
\* the elements returned and the unresolved identifiers printed for each
GetElems(idents, processed, f) ==
    LET ids == GetTypeSpecs(idents, f)
        pr  == processed \cup ProcessedBy(f)
        els == GenElems(f)
    IN  [out    |-> [i \in 1..Len(els) |-> findUnresolved(els[i], ids, pr).g],
         report |-> [i \in 1..Len(els) |-> findUnresolved(els[i], ids, pr).unr]]

\* C14: the elements and the unresolved report GetElems produces for a unit
\* are those it produces when nothing was registered by an earlier call.
C14_RunsAreIndependent ==
    pc = "done" =>
        LET r == GetElems(<< >>, {}, file)
        IN  out = r.out /\ report = r.report

-----------------------------------------------------------------------------
(* Properties of the codec primitives                                      *)

\* the objects an item holds besides itself: a map's keys and values, an
\* array's elements
Kids(it) ==
    CASE it.k = "map"   -> 2 * Uint32(it.v, 0)
      [] it.k = "array" -> Uint32(it.v, 0)
      [] OTHER          -> 0

\* the objects still to come for the object that is open after item i
RECURSIVE pendingAfter(_, _)
pendingAfter(its, i) ==
    IF i = 0 THEN 0
    ELSE LET p == pendingAfter(its, i - 1)
         IN  (IF p = 0 THEN 1 ELSE p) - 1 + Kids(its[i])

\* the items at which an object of the stream is complete
ObjectEnds(its) == {i \in 1..Len(its) : pendingAfter(its, i) = 0}
\* the items are whole objects, one after another
WellFormed(its) == its # << >> /\ Len(its) \in ObjectEnds(its)
\* the item that completes the k-th object
EndOf(its, k) ==
    CHOOSE i \in ObjectEnds(its) :
        Cardinality({j \in ObjectEnds(its) : j <= i}) = k

\* C15: a value written with Write<Kind> and flushed is read back by the
\* matching Read<Kind>Bytes: the value is the one written, there is no
\* error, and the bytes left over are those written after it (none when it
\* was the only value).
C15_RoundTrip ==
    wpc = "read" /\ readres.kind = items[1].k =>
        /\ readres.err = NoErr
        /\ readres.v = items[1].v
        /\ readres.rem = From(ww.sink, cuts[1])
        /\ (Len(items) = 1 => readres.rem = << >>)

\* a map header of 16 entries, the first size past the fixmap range, was
\* written alone and read back
C15_RoundTripReached ==
    /\ wpc = "read"
    /\ items = <<Item("map", U32(16))>>
    /\ readres.kind = "map"
    /\ readres.v = U32(16)
    /\ readres.rem = << >>

\* C16: over a stream of whole objects every Skip succeeds and passes
\* exactly one object, nested objects and extensions included: after k
\* skips what is left starts where the k-th object ends, and after as many
\* skips as there are objects nothing is left.
C16_SkipPassesOneObject ==
    wpc = "skipping" /\ WellFormed(items) =>
        /\ skiperr = NoErr
        /\ nskip <= Cardinality(ObjectEnds(items))
        /\ unskipped = From(ww.sink, cuts[EndOf(items, nskip)])
        /\ (nskip = Cardinality(ObjectEnds(items)) => unskipped = << >>)

\* an array in an array holding an extension was passed by one Skip
C16_NestedSkipped ==
    /\ wpc = "skipping"
    /\ Len(items) = 3
    /\ items[1] = Item("array", U32(1))
    /\ items[2] = Item("array", U32(1))
    /\ items[3].k = "ext"
    /\ nskip = 1
    /\ skiperr = NoErr
    /\ unskipped = << >>

-----------------------------------------------------------------------------
(* Properties of the errors                                                *)

\* C17: what Resumable() says depends on the error's type alone, whatever
\* the error carries: true for ErrShortBytes, ArrayError, IntOverflow,
\* UintOverflow, TypeError and ExtensionTypeError, false for
\* InvalidPrefixError and the fatal error.
C17_ResumableByType ==
    /\ errs.e.kind \in {"ErrShortBytes", "ArrayError", "IntOverflow",
                        "UintOverflow", "TypeError", "ExtensionTypeError"}
          => errs.resumable = TRUE
    /\ errs.e.kind \in {"InvalidPrefixError", "fatal"}
          => errs.resumable = FALSE

\* an InvalidPrefixError of the byte 0xc1 was returned and is not resumable
C17_InvalidPrefixRaised ==
    /\ errs.e = InvalidPrefixError(Prefix.minvalid)
    /\ errs.resumable = FALSE

-----------------------------------------------------------------------------
(* Further properties of the extension codec                               *)

\* the bytes start with ext8, a length byte of 0 and a type id
ZeroLengthExt(b) == Len(b) >= 3 /\ At(b, 0) = mext8 /\ At(b, 1) = 0

EncodingOf(e) == WriteExtension(EmptyWriter, e, "no", "no", 0).mw.buf

\* C19: WriteExtension on a Writer that holds n > 0 unflushed bytes leaves
\* them as they are and puts prefix, length, type id and payload after them:
\* all the Writer has put out is the earlier bytes followed by the whole
\* encoding of the extension, for every payload length.
C19_WriteExtensionKeepsEarlierBytes ==
    (Written /\ origin.pre # << >>)
    => Stream = origin.pre \o EncodingOf(origin.e)

\* what the decoder that was not called gives on the same bytes
OtherDecoder ==
    IF last.op = "ReadExtensionBytes"
    THEN ReadExtension(wire, last.want)
    ELSE ReadExtensionBytes(wire, last.want)

\* C20: Reader.ReadExtension and ReadExtensionBytes agree on every input and
\* every extension: both succeed or both fail with the same kind of error,
\* both hand the same slices to UnmarshalBinary, both consume as many bytes.
C20_DecodersAgree ==
    phase = "decoded"
    => /\ last.res.err.kind = OtherDecoder.err.kind
       /\ last.res.calls = OtherDecoder.calls
       /\ Len(last.res.rem) = Len(OtherDecoder.rem)

-----------------------------------------------------------------------------
(* Properties of GenElem and globalProcessed                               *)

\* the records of the unit for which GenElem returns nil
Dropped ==
    {file[k].Name : k \in {j \in 1..Len(file) :
        file[j].Type.k = "Struct" /\ GenElem(file[j]).el = NilElem}}

\* C21: GenElem adds a name to globalProcessed exactly when it returns an
\* element for it, and so a field that refers to a record of the unit that
\* was dropped for having no usable field is reported as unresolved.
C21_ProcessedOnlyIfGenerated ==
    /\ [][(pc = "gen" /\ file[gen_i].Name \notin globalProcessed)
            => ((file[gen_i].Name \in globalProcessed') <=> (out' # out))]_vars
    /\ [](pc = "done" =>
            \A i \in 1..Len(out) : \A b \in NodesOf(out[i]) :
                (IsIdent(b) /\ b.Ident \in Dropped)
                => b.Ident \in Range(report[i]))

-----------------------------------------------------------------------------
(* Properties of the registry under concurrent calls                       *)

\* both calls have ended and were made with one id that is not reserved
SameIdEnded ==
    /\ BothEnded
    /\ goCalls[1].typ = goCalls[2].typ
    /\ goCalls[1].typ \notin ReservedTypes
Returned == {g \in Goroutines : goCalls[g].pc = "returned"}

\* C22 as stated: whatever the interleaving of two concurrent
\* RegisterExtension calls with the same non-reserved id, at most one of
\* them returns without a panic, and the registry then holds its factory.
C22_AtMostOneCompletes ==
    SameIdEnded =>
        /\ Cardinality(Returned) <= 1
        /\ \A g \in Returned : extensionReg[goCalls[g].typ] = goCalls[g].f

\* C22 amended: RegisterExtension is safe only for calls made in turn, as
\* during initialization.  When the two calls do not run at the same time,
\* every call after the first registration of the id panics: the second
\* call, and the first too when the id was registered before; the registry
\* keeps the earliest factory, and the process is not stopped.
C22_CallsInTurnKeepFirst ==
    (SameIdEnded /\ ~overlap) =>
        LET t == goCalls[1].typ
        IN  /\ ~crashed
            /\ goCalls[ended[2]].panic = "called more than once"
            /\ IF t \in DOMAIN regBefore
               THEN /\ goCalls[ended[1]].panic = "called more than once"
                    /\ extensionReg = regBefore
               ELSE /\ goCalls[ended[1]].pc = "returned"
                    /\ extensionReg = RegPut(regBefore, t, goCalls[ended[1]].f)

\* two calls with the same free id and two factories were made in turn: the
\* first returned and the second panicked
C22_CallsInTurnEnded ==
    /\ SameIdEnded
    /\ ~overlap
    /\ goCalls[1].f # goCalls[2].f
    /\ goCalls[ended[1]].pc = "returned"
    /\ goCalls[ended[2]].pc = "panicked"

-----------------------------------------------------------------------------
(* Properties of peekExtension                                             *)

\* where the format puts the type id of an extension with the lead byte
\* lead: -1 when lead is no extension prefix
TypeIdAt(lead) ==
    CASE lead \in {mfixext1, mfixext2, mfixext4, mfixext8, mfixext16} -> 1
      [] lead = mext8  -> 2
      [] lead = mext16 -> 3
      [] lead = mext32 -> 5
      [] OTHER -> -1

\* C23: on 3 bytes or more peekExtension reads no byte past the end of b:
\* it returns the type id byte of the header when that byte is in b (b[5]
\* for ext32), ErrShortBytes when an ext16 or ext32 header is cut before
\* it, and an error when the first byte is no extension prefix.
C23_PeekStaysInside ==
    phase = "peeked" =>
        LET k == TypeIdAt(At(wire, 0))
        IN  /\ ~peeked.panic
            /\ (k >= 0 /\ k < Len(wire))
                  => peeked.err = NoErr /\ peeked.typ = Int8(At(wire, k))
            /\ (k >= Len(wire)) => peeked.err = ErrShortBytes
            /\ (k < 0) => peeked.err # NoErr

=============================================================================
